---------------------------- MODULE Spec2Model ----------------------------
(***************************************************************************)
(* Voice turn-taking engine of the AITutor: the four voice-input variants  *)
(* (SimpleVoiceInput, InterruptibleVoiceInput, VoiceActivityDetection,     *)
(* ReliableVoiceInput), the TTSService and the AITutorModal wiring.        *)
(*                                                                         *)
(* Every service object is one record-valued variable.  Every handler of   *)
(* the source (a public method, a recognizer event handler, a timer        *)
(* callback, an animation-frame callback) is one action; the methods the   *)
(* handlers share are operators from the object before the call to the     *)
(* object after it.  The field `out` of an object holds, in order, what    *)
(* the handler that ran last emitted: the callbacks it invoked and the     *)
(* calls it made on the platform (recognizer, getUserMedia, synthesizer).  *)
(*                                                                         *)
(* The platform speech recognizer is the field `rec`:                      *)
(*   idle      not started; start() is accepted                            *)
(*   starting  start() accepted, its start event not yet delivered         *)
(*   running   start event delivered                                       *)
(*   stopping  stop() requested: one result event for the audio received   *)
(*             so far may still be delivered, then the end event           *)
(*   flushed   that result event was delivered: the end event follows      *)
(*   aborting  abort() requested: an `aborted` error event may be          *)
(*             delivered, then the end event                               *)
(*   ending    an error event was delivered: only the end event follows    *)
(* start() on a recognizer that is not idle throws InvalidStateError.      *)
(*                                                                         *)
(* Timers hold the milliseconds left until they fire, NoTimer when none is *)
(* pending.  Time advances by at most one time step, never past a pending  *)
(* timer; recognizer events and user calls may happen at any instant.      *)
(***************************************************************************)
EXTENDS Integers, Sequences, FiniteSets, TLC

VARIABLES svi, ivi, vad, rvi, modal, tts, srs

vars == <<svi, ivi, vad, rvi, modal, tts, srs>>

---------------------------------------------------------------------------
(* Bounds of the model *)

\* Calls of the public start()/startListening() by the user, per object
MaxUserStarts == 2
\* Result events carrying final text the recognizer delivers in one session
MaxFinals == 2
\* Triggers of the detection loop (voice-start signals) in one run
MaxTriggers == 2
\* Utterances handed to the synthesizer in one run
MaxUtterances == 3
\* Calls of captureQuestion in one run
MaxCaptures == 2
\* Questions sent to the reply generator in one run
MaxMessages == 2

---------------------------------------------------------------------------
(* Shared helpers *)

NoTimer == 0 - 1

NoText == << >>

SetMin(S) == CHOOSE x \in S : \A y \in S : x <= y

Minimum(a, b) == IF a <= b THEN a ELSE b

\* One emitted callback or platform call
Event(ev, text) == [ev |-> ev, text |-> text]

Emit(s, ev, text) == [s EXCEPT !.out = Append(@, Event(ev, text))]

\* A handler starts with nothing emitted
Begin(s) == [s EXCEPT !.out = << >>]

\* The set of the elements of a sequence
Range(seq) == {seq[i] : i \in 1..Len(seq)}

HasEv(out, ev) == \E i \in 1..Len(out) : out[i].ev = ev

CountEv(out, ev) == Cardinality({i \in 1..Len(out) : out[i].ev = ev})

\* String.prototype.trim on a sequence of characters
IsSpace(c) == c = " "

RECURSIVE TrimLeft(_)
TrimLeft(t) ==
    IF t = << >> THEN << >>
    ELSE IF IsSpace(Head(t)) THEN TrimLeft(Tail(t)) ELSE t

RECURSIVE TrimRight(_)
TrimRight(t) ==
    IF t = << >> THEN << >>
    ELSE IF IsSpace(t[Len(t)]) THEN TrimRight(SubSeq(t, 1, Len(t) - 1)) ELSE t

Trim(t) == TrimRight(TrimLeft(t))

\* SpeechRecognition.stop()
RecStop(r) == IF r \in {"starting", "running"} THEN "stopping" ELSE r

\* 1 when a result event carries final text, else 0
Finals(newFinalText) == IF newFinalText # NoText THEN 1 ELSE 0

\* The recognizer after it delivered a result event
RecResult(r) == IF r = "stopping" THEN "flushed" ELSE r

\* SpeechRecognition.abort()
RecAbort(r) == IF r \in {"idle", "ending"} THEN r ELSE "aborting"

\* Timers after d ms
Elapse(t, d) == IF t = NoTimer THEN NoTimer ELSE t - d

ElapseAll(ts, d) == [i \in 1..Len(ts) |-> ts[i] - d]

Pending(t) == IF t = NoTimer THEN {} ELSE {t}

PendingAll(ts) == {ts[i] : i \in 1..Len(ts)}

\* The step by which time advances when the timers in P are pending: at most
\* `step`, and never past a pending timer
StepOf(P, step) == Minimum(step, SetMin(P))

CanAdvance(P) == P # {} /\ \A t \in P : t > 0

\* What one result event of the recognizer carries: the concatenated
\* transcripts of its final results and of its interim results
FinalTexts == { << >>, <<" ">>, <<"h", "i">> }

InterimTexts == { << >>, <<"u", "m">> }

\* The error codes of the recognizer's error event
RecErrors == {"no-speech", "network", "not-allowed", "aborted"}

---------------------------------------------------------------------------
(* SimpleVoiceInput *)

SviTimeout == 8000
SviSilenceTimeout == 2000
SviRestartDelay == 3000
SviAutoCompleteLength == 5

\* Final transcripts of one result event of SimpleVoiceInput: one is long
\* enough for the auto-complete of onresult
SviFinalTexts == FinalTexts \cup { <<"p", "l", "e", "a", "s", "e">> }

SviInit ==
    [ isListening |-> FALSE,
      finalTranscript |-> NoText,
      timeoutTimer |-> NoTimer,
      silenceTimer |-> NoTimer,
      restartTimers |-> << >>,
      rec |-> "idle",
      out |-> << >>,
      \* history: finalized utterances emitted in the recognizer session,
      \* the final text it delivered, user calls of start(), and whether the
      \* user's last call was stop()/abort()
      sessionCompletes |-> 0,
      delivered |-> 0,
      userStarts |-> 0,
      userStopped |-> FALSE,
      \* history: how long the listening period has lasted, 0 when not
      \* listening
      listenedFor |-> 0 ]

SviClearTimers(s) ==
    [s EXCEPT !.timeoutTimer = NoTimer, !.silenceTimer = NoTimer]

\* A resetSilenceTimer that restarts the overall timer as well
SviResetBothTimers(s) ==
    [s EXCEPT !.silenceTimer = SviSilenceTimeout, !.timeoutTimer = SviTimeout]

SviResetSilenceTimer(s) == [s EXCEPT !.silenceTimer = SviSilenceTimeout]

SviStartTimers(s) ==
    SviResetSilenceTimer([s EXCEPT !.timeoutTimer = SviTimeout])

\* start(): the recognizer's start() throws unless it is idle
SviStartCall(s) ==
    IF s.isListening THEN s
    ELSE IF s.rec = "idle"
         THEN Emit([s EXCEPT !.rec = "starting",
                             !.sessionCompletes = 0,
                             !.delivered = 0],
                   "recognition.start", NoText)
         ELSE Emit(Emit(s, "recognition.start", NoText),
                   "InvalidStateError", NoText)

SviComplete(s) ==
    IF ~s.isListening THEN s
    ELSE LET s1 == SviClearTimers([s EXCEPT !.isListening = FALSE,
                                            !.listenedFor = 0])
             s2 == Emit([s1 EXCEPT !.rec = RecStop(@)],
                        "recognition.stop", NoText)
             result == Trim(s.finalTranscript)
             s3 == IF result # NoText
                   THEN Emit([s2 EXCEPT !.sessionCompletes = @ + 1],
                             "onComplete", result)
                   ELSE s2
             s4 == Emit(s3, "onStop", NoText)
         IN  [s4 EXCEPT !.restartTimers = Append(@, SviRestartDelay)]

\* The user calls start()
SviStart ==
    /\ svi.userStarts < MaxUserStarts
    /\ svi' = SviStartCall([Begin(svi) EXCEPT
                               !.userStarts = @ + 1, !.userStopped = FALSE])
    /\ UNCHANGED <<ivi, vad, rvi, modal, tts, srs>>

\* The user calls stop()
SviStop ==
    /\ svi' = SviComplete([Begin(svi) EXCEPT !.userStopped = TRUE])
    /\ UNCHANGED <<ivi, vad, rvi, modal, tts, srs>>

\* The user calls abort()
SviAbort ==
    /\ LET s1 == SviClearTimers([Begin(svi) EXCEPT !.userStopped = TRUE,
                                                   !.isListening = FALSE,
                                                   !.listenedFor = 0])
           s2 == Emit([s1 EXCEPT !.rec = RecAbort(@)],
                      "recognition.abort", NoText)
       IN  svi' = Emit(s2, "onStop", NoText)
    /\ UNCHANGED <<ivi, vad, rvi, modal, tts, srs>>

\* recognition.onstart
SviOnStart ==
    /\ svi.rec = "starting"
    /\ LET s1 == [Begin(svi) EXCEPT !.rec = "running",
                                    !.isListening = TRUE,
                                    !.finalTranscript = NoText,
                                    !.listenedFor = 0]
       IN  svi' = SviStartTimers(Emit(s1, "onStart", NoText))
    /\ UNCHANGED <<ivi, vad, rvi, modal, tts, srs>>

\* recognition.onresult
SviOnResult ==
    /\ svi.rec \in {"running", "stopping"}
    /\ \E newFinalText \in SviFinalTexts, interimTranscript \in InterimTexts :
          /\ svi.delivered + Finals(newFinalText) <= MaxFinals
          /\ LET s0 == [Begin(svi) EXCEPT
                           !.delivered = @ + Finals(newFinalText),
                           !.rec = RecResult(@)]
                 s1 == IF newFinalText # NoText
                       THEN [s0 EXCEPT !.finalTranscript = @ \o newFinalText]
                       ELSE s0
                 s2 == Emit(s1, "onTranscript",
                            Trim(s1.finalTranscript \o interimTranscript))
                 s3 == IF newFinalText # NoText \/ interimTranscript # NoText
                       THEN SviResetSilenceTimer(s2)
                       ELSE s2
             IN  svi' = IF Len(Trim(s3.finalTranscript)) > SviAutoCompleteLength
                        THEN SviComplete(s3)
                        ELSE s3
    /\ UNCHANGED <<ivi, vad, rvi, modal, tts, srs>>

\* recognition.onerror
SviOnError ==
    /\ svi.rec \in {"starting", "running", "stopping", "aborting"}
    /\ \E error \in RecErrors :
          /\ (svi.rec = "aborting") = (error = "aborted")
          /\ svi' = Emit(SviClearTimers([Begin(svi) EXCEPT
                                            !.rec = "ending",
                                            !.isListening = FALSE,
                                            !.listenedFor = 0]),
                         "onError", NoText)
    /\ UNCHANGED <<ivi, vad, rvi, modal, tts, srs>>

\* recognition.onend
SviOnEnd ==
    /\ svi.rec \in {"running", "stopping", "flushed", "aborting", "ending"}
    /\ svi' = SviComplete([Begin(svi) EXCEPT !.rec = "idle"])
    /\ UNCHANGED <<ivi, vad, rvi, modal, tts, srs>>

\* The callback of the overall timer armed by startTimers: stop()
SviTimeoutFires ==
    /\ svi.timeoutTimer = 0
    /\ svi' = SviComplete([Begin(svi) EXCEPT !.timeoutTimer = NoTimer])
    /\ UNCHANGED <<ivi, vad, rvi, modal, tts, srs>>

\* The callback of the silence timer
SviSilenceFires ==
    /\ svi.silenceTimer = 0
    /\ svi' = SviComplete([Begin(svi) EXCEPT !.silenceTimer = NoTimer])
    /\ UNCHANGED <<ivi, vad, rvi, modal, tts, srs>>

\* The callback of the auto-restart timer armed by complete()
SviRestartFires ==
    /\ svi.restartTimers # << >>
    /\ Head(svi.restartTimers) = 0
    /\ LET s == [Begin(svi) EXCEPT !.restartTimers = Tail(@)]
       IN  svi' = IF ~s.isListening THEN SviStartCall(s) ELSE s
    /\ UNCHANGED <<ivi, vad, rvi, modal, tts, srs>>

\* Time passes, in steps of half the silence timeout
SviAdvance ==
    /\ LET P == Pending(svi.timeoutTimer) \cup Pending(svi.silenceTimer)
                    \cup PendingAll(svi.restartTimers)
           d == StepOf(P, SviSilenceTimeout \div 2)
       IN  /\ CanAdvance(P)
           /\ svi' = [Begin(svi) EXCEPT
                         !.timeoutTimer = Elapse(@, d),
                         !.silenceTimer = Elapse(@, d),
                         !.restartTimers = ElapseAll(@, d),
                         !.listenedFor =
                             IF svi.isListening THEN @ + d ELSE @]
    /\ UNCHANGED <<ivi, vad, rvi, modal, tts, srs>>

NextSimple ==
    \/ SviStart
    \/ SviStop
    \/ SviAbort
    \/ SviOnStart
    \/ SviOnResult
    \/ SviOnError
    \/ SviOnEnd
    \/ SviTimeoutFires
    \/ SviSilenceFires
    \/ SviRestartFires
    \/ SviAdvance

---------------------------------------------------------------------------
(* InterruptibleVoiceInput *)

IviSilenceTimeout == 2000
IviCooldown == 2000
\* voiceThreshold and interruptSensitivity, in thousandths of full volume
IviVoiceThreshold == 20
IviInterruptSensitivity == 15
\* Normalized volumes the analyser reports, in thousandths: below both
\* thresholds, between them, above both
IviLevels == {10, 17, 30}

IviInit(recognition, level) ==
    [ audioContext |-> TRUE,
      mediaStream |-> FALSE,
      analyser |-> FALSE,
      recognition |-> recognition,
      isActive |-> FALSE,
      isListening |-> FALSE,
      isProcessing |-> FALSE,
      currentStatus |-> "idle",
      silenceTimer |-> NoTimer,
      \* pending animation-frame callbacks of detectInterrupt, and whether
      \* this.animationFrame names one of them
      frames |-> 0,
      afLive |-> FALSE,
      finalTranscript |-> NoText,
      \* the timers armed at the end of processResult
      cooldownTimers |-> << >>,
      \* start() calls awaiting getUserMedia
      starting |-> 0,
      rec |-> "idle",
      \* the volume the analyser reports now
      level |-> level,
      out |-> << >>,
      \* history: media streams open, utterances emitted and final text
      \* delivered in the recognizer session, triggers of the detection loop,
      \* user calls of start(), whether stop() ran and no public method was
      \* called since, and the voice-start signals raised since the volume
      \* last was at or below the threshold
      openStreams |-> 0,
      sessionEmits |-> 0,
      delivered |-> 0,
      triggers |-> 0,
      userStarts |-> 0,
      afterStop |-> FALSE,
      runFires |-> 0,
      \* history: the silence timeouts scheduled and neither cleared nor
      \* run, and the time since the last result event or, when later, since
      \* the recognizer was last asked to listen, counted up to the silence
      \* timeout and set to it when reset(), processResult() or cleanup()
      \* ends the turn
      silenceArmed |-> 0,
      sinceSpeech |-> IviSilenceTimeout,
      \* history: whether stop() ran while a start() call that is still
      \* in flight awaited the microphone
      stoppedInFlight |-> FALSE,
      \* history: the final fragments the recognizer delivered in its
      \* session, joined in the order of delivery
      sessionFinals |-> NoText ]

IviUpdateStatus(s, status) ==
    IF s.currentStatus # status
    THEN Emit([s EXCEPT !.currentStatus = status], "onStatusChange", <<status>>)
    ELSE s

\* if (this.silenceTimer) { clearTimeout(this.silenceTimer); ... }
IviClearSilenceTimer(s) ==
    [s EXCEPT !.silenceTimer = NoTimer,
              !.silenceArmed = IF s.silenceTimer # NoTimer THEN @ - 1 ELSE @,
              !.sinceSpeech = IviSilenceTimeout]

IviReset(s) ==
    LET s1 == [s EXCEPT !.isListening = FALSE,
                        !.isProcessing = FALSE,
                        !.finalTranscript = NoText]
        s2 == IviUpdateStatus(s1, IF s.isActive THEN "detecting" ELSE "idle")
    IN  IviClearSilenceTimer(s2)

\* A resetSilenceTimer that leaves a running countdown alone
IviResetSilenceTimerKeep(s) ==
    IF s.silenceTimer # NoTimer THEN s
    ELSE [s EXCEPT !.silenceTimer = IviSilenceTimeout,
                   !.silenceArmed = @ + 1]

IviResetSilenceTimer(s) ==
    [IviClearSilenceTimer(s) EXCEPT !.silenceTimer = IviSilenceTimeout,
                                    !.silenceArmed = @ + 1,
                                    !.sinceSpeech = s.sinceSpeech]

IviStartUserListening(s) ==
    IF s.isListening \/ ~s.recognition THEN s
    ELSE LET s1 == Emit(s, "onUserSpeechStart", NoText)
         IN  IF s.rec = "idle"
             THEN IviResetSilenceTimer(
                      Emit([s1 EXCEPT !.rec = "starting",
                                      !.sessionEmits = 0,
                                      !.delivered = 0,
                                      !.sessionFinals = NoText,
                                      !.sinceSpeech = 0],
                           "recognition.start", NoText))
             ELSE IviReset(Emit(Emit(s1, "recognition.start", NoText),
                                "InvalidStateError", NoText))

\* A detectInterrupt that asks the recognizer to start before it signals
IviOnTriggerLate(s) ==
    Emit(IviStartUserListening(
             [s EXCEPT !.runFires = Minimum(@ + 1, 2), !.triggers = @ + 1]),
         "onUserSpeakingDetected", NoText)

\* What detectInterrupt does on a trigger
IviOnTrigger(s) ==
    IviStartUserListening(
        Emit([s EXCEPT !.runFires = Minimum(@ + 1, 2), !.triggers = @ + 1],
             "onUserSpeakingDetected", NoText))

IviDetectInterrupt(s) ==
    IF ~s.isActive \/ ~s.analyser THEN s
    ELSE IF /\ s.level > IviInterruptSensitivity
            /\ ~s.isListening
            /\ ~s.isProcessing
         THEN IviOnTrigger(s)
         ELSE [s EXCEPT !.frames = @ + 1, !.afLive = TRUE]

IviStartInterruptDetection(s) ==
    IF ~s.analyser \/ ~s.isActive THEN s ELSE IviDetectInterrupt(s)

\* A processResult that hands over the transcript also when it is blank
IviProcessResultAlways(s) ==
    IF s.isProcessing THEN s
    ELSE LET s1 == [s EXCEPT !.isProcessing = TRUE, !.isListening = FALSE]
             s2 == IviUpdateStatus(s1, "processing")
             s3 == IviClearSilenceTimer(s2)
             s4 == IF s.recognition
                   THEN Emit([s3 EXCEPT !.rec = RecStop(@)],
                             "recognition.stop", NoText)
                   ELSE s3
             s5 == Emit([s4 EXCEPT !.sessionEmits = @ + 1],
                        "onUserSpeechEnd", Trim(s.finalTranscript))
         IN  [s5 EXCEPT !.cooldownTimers = Append(@, IviCooldown)]

IviProcessResult(s) ==
    IF s.isProcessing THEN s
    ELSE LET s1 == [s EXCEPT !.isProcessing = TRUE, !.isListening = FALSE]
             s2 == IviUpdateStatus(s1, "processing")
             s3 == IviClearSilenceTimer(s2)
             s4 == IF s.recognition
                   THEN Emit([s3 EXCEPT !.rec = RecStop(@)],
                             "recognition.stop", NoText)
                   ELSE s3
             result == Trim(s.finalTranscript)
             s5 == IF result # NoText
                   THEN Emit([s4 EXCEPT !.sessionEmits = @ + 1],
                             "onUserSpeechEnd", result)
                   ELSE s4
         IN  [s5 EXCEPT !.cooldownTimers = Append(@, IviCooldown)]

IviCleanup(s) ==
    LET s1 == IviClearSilenceTimer(
                  [s EXCEPT !.frames = IF s.afLive THEN @ - 1 ELSE @,
                            !.afLive = FALSE])
        s2 == IF s.recognition
              THEN Emit([s1 EXCEPT !.rec = RecAbort(@)],
                        "recognition.abort", NoText)
              ELSE s1
        s3 == IF s.mediaStream
              THEN [s2 EXCEPT !.mediaStream = FALSE, !.openStreams = @ - 1]
              ELSE s2
    IN  [s3 EXCEPT !.audioContext = FALSE]

IviStopCall(s) ==
    IviUpdateStatus(IviCleanup([s EXCEPT !.isActive = FALSE,
                                         !.afterStop = TRUE,
                                         !.stoppedInFlight = s.starting > 0]),
                    "idle")

\* The user calls start(): it runs up to its await of getUserMedia
IviStart ==
    /\ ivi.userStarts < MaxUserStarts
    /\ LET s == [Begin(ivi) EXCEPT !.userStarts = @ + 1, !.afterStop = FALSE]
       IN  ivi' = IF s.isActive THEN s
                  ELSE Emit([s EXCEPT !.starting = @ + 1],
                            "getUserMedia", NoText)
    /\ UNCHANGED <<svi, vad, rvi, modal, tts, srs>>

\* getUserMedia resolved: start() runs on
IviStartGranted ==
    /\ ivi.starting > 0
    /\ LET s1 == [Begin(ivi) EXCEPT !.starting = @ - 1,
                                    !.mediaStream = TRUE,
                                    !.openStreams = @ + 1,
                                    !.stoppedInFlight = @ /\ ivi.starting > 1]
       IN  ivi' = IF s1.audioContext /\ s1.mediaStream
                  THEN IviStartInterruptDetection(
                           IviUpdateStatus([s1 EXCEPT !.analyser = TRUE,
                                                      !.isActive = TRUE],
                                           "detecting"))
                  ELSE s1
    /\ ivi'.triggers <= MaxTriggers
    /\ UNCHANGED <<svi, vad, rvi, modal, tts, srs>>

\* A catch of start() that reports the error and asks for the microphone
\* again
IviStartDeniedRetry ==
    /\ ivi.starting > 0
    /\ ivi' = Emit(Emit(Begin(ivi),
                        "onError", <<"Failed to access microphone">>),
                   "getUserMedia", NoText)
    /\ UNCHANGED <<svi, vad, rvi, modal, tts, srs>>

\* getUserMedia rejected: the catch of start()
IviStartDenied ==
    /\ ivi.starting > 0
    /\ ivi' = Emit(Emit([Begin(ivi) EXCEPT
                             !.starting = @ - 1,
                             !.stoppedInFlight = @ /\ ivi.starting > 1],
                        "onError", <<"Failed to access microphone">>),
                   "throw", NoText)
    /\ UNCHANGED <<svi, vad, rvi, modal, tts, srs>>

\* The user calls stop()
IviStop ==
    /\ ivi' = IviStopCall(Begin(ivi))
    /\ UNCHANGED <<svi, vad, rvi, modal, tts, srs>>

\* The user calls setAISpeaking(speaking)
IviSetAISpeaking ==
    /\ \E speaking \in BOOLEAN :
          LET s == [Begin(ivi) EXCEPT !.afterStop = FALSE]
          IN  ivi' = IF speaking THEN IviUpdateStatus(s, "detecting") ELSE s
    /\ UNCHANGED <<svi, vad, rvi, modal, tts, srs>>

\* The volume at the microphone changes
IviLevelChange ==
    /\ \E l \in IviLevels \ {ivi.level} :
          ivi' = [Begin(ivi) EXCEPT
                     !.level = l,
                     !.runFires = IF l > IviInterruptSensitivity THEN @ ELSE 0]
    /\ UNCHANGED <<svi, vad, rvi, modal, tts, srs>>

\* One pending animation-frame callback runs: the one this.animationFrame
\* names, or another one
IviFrame ==
    /\ ivi.frames > 0
    /\ \E named \in BOOLEAN :
          /\ named => ivi.afLive
          /\ ~named => ivi.frames > (IF ivi.afLive THEN 1 ELSE 0)
          /\ ivi' = IviDetectInterrupt(
                        [Begin(ivi) EXCEPT
                            !.frames = @ - 1,
                            !.afLive = IF named THEN FALSE ELSE @])
          /\ ivi'.triggers <= MaxTriggers
    /\ UNCHANGED <<svi, vad, rvi, modal, tts, srs>>

\* recognition.onstart
IviOnStart ==
    /\ ivi.rec = "starting"
    /\ LET s1 == IviUpdateStatus([Begin(ivi) EXCEPT !.rec = "running",
                                                    !.isListening = TRUE],
                                 "listening")
       IN  ivi' = [s1 EXCEPT !.finalTranscript = NoText]
    /\ UNCHANGED <<svi, vad, rvi, modal, tts, srs>>

\* recognition.onresult
IviOnResult ==
    /\ ivi.rec \in {"running", "stopping"}
    /\ \E newFinalText \in FinalTexts, interimTranscript \in InterimTexts :
          /\ ivi.delivered + Finals(newFinalText) <= MaxFinals
          /\ LET s0 == [Begin(ivi) EXCEPT
                           !.delivered = @ + Finals(newFinalText),
                           !.sessionFinals = @ \o newFinalText,
                           !.rec = RecResult(@),
                           !.sinceSpeech = 0]
                 s1 == IF newFinalText # NoText
                       THEN [s0 EXCEPT !.finalTranscript = @ \o newFinalText]
                       ELSE s0
             IN  ivi' = IviResetSilenceTimer(s1)
    /\ UNCHANGED <<svi, vad, rvi, modal, tts, srs>>

\* recognition.onerror
IviOnError ==
    /\ ivi.rec \in {"starting", "running", "stopping", "aborting"}
    /\ \E error \in RecErrors :
          /\ (ivi.rec = "aborting") = (error = "aborted")
          /\ LET s1 == IviReset(Emit([Begin(ivi) EXCEPT !.rec = "ending"],
                                     "onError", <<error>>))
             IN  ivi' = IF error = "not-allowed" THEN IviStopCall(s1) ELSE s1
    /\ UNCHANGED <<svi, vad, rvi, modal, tts, srs>>

\* recognition.onend
IviOnEnd ==
    /\ ivi.rec \in {"running", "stopping", "flushed", "aborting", "ending"}
    /\ ivi' = IviProcessResult([Begin(ivi) EXCEPT !.rec = "idle"])
    /\ UNCHANGED <<svi, vad, rvi, modal, tts, srs>>

\* The callback of the silence timer
IviSilenceFires ==
    /\ ivi.silenceTimer = 0
    /\ ivi' = IviProcessResult(
                  [Begin(ivi) EXCEPT !.silenceTimer = NoTimer,
                                     !.silenceArmed = @ - 1])
    /\ UNCHANGED <<svi, vad, rvi, modal, tts, srs>>

\* The callback of the timer armed at the end of processResult
IviCooldownFires ==
    /\ ivi.cooldownTimers # << >>
    /\ Head(ivi.cooldownTimers) = 0
    /\ LET s1 == IviReset([Begin(ivi) EXCEPT !.cooldownTimers = Tail(@)])
       IN  ivi' = IF s1.isActive THEN IviStartInterruptDetection(s1) ELSE s1
    /\ ivi'.triggers <= MaxTriggers
    /\ UNCHANGED <<svi, vad, rvi, modal, tts, srs>>

\* Time passes, in steps of half the silence timeout
IviAdvance ==
    /\ LET P == Pending(ivi.silenceTimer) \cup PendingAll(ivi.cooldownTimers)
           d == StepOf(P, IviSilenceTimeout \div 2)
       IN  /\ CanAdvance(P)
           /\ ivi' = [Begin(ivi) EXCEPT
                         !.silenceTimer = Elapse(@, d),
                         !.cooldownTimers = ElapseAll(@, d),
                         !.sinceSpeech =
                             Minimum(@ + d, IviSilenceTimeout)]
    /\ UNCHANGED <<svi, vad, rvi, modal, tts, srs>>

NextInterruptible ==
    \/ IviStart
    \/ IviStartGranted
    \/ IviStartDenied
    \/ IviStop
    \/ IviSetAISpeaking
    \/ IviLevelChange
    \/ IviFrame
    \/ IviOnStart
    \/ IviOnResult
    \/ IviOnError
    \/ IviOnEnd
    \/ IviSilenceFires
    \/ IviCooldownFires
    \/ IviAdvance

---------------------------------------------------------------------------
(* VoiceActivityDetection *)

\* Volumes and the threshold are in thousandths
VadThreshold == 10
VadMaxListenTime == 10000
VadDebounceTime == 2000
VadEndRestartDelay == 100
VadVoiceEndDelay == 2000
VadInterimCompleteLength == 10

VadLevels == {5, 30}

\* Interim transcripts of one result event of VoiceActivityDetection: one
\* looks complete to onresult
VadInterimTexts ==
    InterimTexts
        \cup { <<"h", "o", "w", " ", "a", "r", "e", " ", "y", "o", "u", "?">> }

VadErrors == {"no-speech", "not-allowed"}

\* /[.!?]$/.test(t)
EndsWithPunctuation(t) == t # << >> /\ t[Len(t)] \in {".", "!", "?"}

\* A sorted list of timers with one more timer
InsertTimer(ts, v) ==
    LET k == Cardinality({i \in 1..Len(ts) : ts[i] <= v})
    IN  SubSeq(ts, 1, k) \o <<v>> \o SubSeq(ts, k + 1, Len(ts))

VadInit(level) ==
    [ audioContext |-> TRUE,
      mediaStream |-> FALSE,
      analyser |-> FALSE,
      recognition |-> TRUE,
      isActive |-> FALSE,
      isListening |-> FALSE,
      maxListenTimer |-> NoTimer,
      \* the timers armed by onend and by handleVoiceEnd, soonest first:
      \* their callbacks are the same code
      restartTimers |-> << >>,
      \* animation-frame callbacks pending, and whether the one
      \* this.animationFrame names is among them
      frames |-> 0,
      afLive |-> FALSE,
      starting |-> 0,
      rec |-> "idle",
      level |-> level,
      out |-> << >>,
      \* history: media streams open, onVoiceEnd emitted since the last
      \* onVoiceStart, utterance-bearing results delivered in the recognizer
      \* session, onVoiceStart emitted, user calls of start(), whether the
      \* recognizer reported not-allowed and the user has not called start()
      \* since, and onVoiceStart emitted since the volume last was at or
      \* below the threshold
      openStreams |-> 0,
      sessionEnds |-> 0,
      delivered |-> 0,
      triggers |-> 0,
      userStarts |-> 0,
      denied |-> FALSE,
      runFires |-> 0,
      \* history: how long the listening period has lasted, and how long
      \* it has been without a result event; 0 when not listening
      listenedFor |-> 0,
      quietFor |-> 0 ]

VadStopListening(s) ==
    IF ~s.isListening THEN s
    ELSE LET s1 == [s EXCEPT !.isListening = FALSE,
                             !.listenedFor = 0,
                             !.quietFor = 0]
             s2 == IF s.recognition
                   THEN Emit([s1 EXCEPT !.rec = RecStop(@)],
                             "recognition.stop", NoText)
                   ELSE s1
         IN  [s2 EXCEPT !.maxListenTimer = NoTimer]

VadStartListening(s) ==
    IF s.isListening \/ ~s.recognition THEN s
    ELSE LET s1 == Emit([s EXCEPT !.isListening = TRUE,
                                  !.listenedFor = 0,
                                  !.quietFor = 0,
                                  !.triggers = @ + 1,
                                  !.sessionEnds = 0,
                                  !.runFires = Minimum(@ + 1, 2)],
                        "onVoiceStart", NoText)
             s2 == Emit(s1, "recognition.start", NoText)
         IN  IF s.rec = "idle"
             THEN [s2 EXCEPT !.rec = "starting",
                             !.delivered = 0,
                             !.maxListenTimer = VadMaxListenTime]
             ELSE VadStopListening(Emit(s2, "InvalidStateError", NoText))

\* One run of detectVoice
VadDetectVoice(s) ==
    IF ~s.isActive \/ ~s.analyser THEN s
    ELSE LET s1 == IF s.level > VadThreshold /\ ~s.isListening
                   THEN VadStartListening(s)
                   ELSE s
         IN  [s1 EXCEPT !.frames = @ + 1, !.afLive = TRUE]

VadStartVoiceDetection(s) ==
    IF ~s.analyser \/ ~s.isActive THEN s ELSE VadDetectVoice(s)

VadHandleVoiceEnd(s, transcript) ==
    LET s1 == VadStopListening(s)
        s2 == IF Trim(transcript) # NoText
              THEN Emit([s1 EXCEPT !.sessionEnds = Minimum(@ + 1, 2)],
                        "onVoiceEnd", Trim(transcript))
              ELSE s1
    IN  [s2 EXCEPT !.restartTimers = InsertTimer(@, VadVoiceEndDelay)]

VadCleanup(s) ==
    LET s1 == [s EXCEPT !.frames = IF s.afLive THEN @ - 1 ELSE @,
                        !.afLive = FALSE,
                        !.maxListenTimer = NoTimer]
        s2 == IF s.recognition
              THEN Emit([s1 EXCEPT !.rec = RecStop(@)],
                        "recognition.stop", NoText)
              ELSE s1
        s3 == IF s.mediaStream
              THEN [s2 EXCEPT !.mediaStream = FALSE, !.openStreams = @ - 1]
              ELSE s2
    IN  [s3 EXCEPT !.audioContext = FALSE]

\* The user calls start(): it runs up to its await of getUserMedia
VadStart ==
    /\ vad.userStarts < MaxUserStarts
    /\ vad' = Emit([Begin(vad) EXCEPT !.userStarts = @ + 1,
                                      !.denied = FALSE,
                                      !.starting = @ + 1],
                   "getUserMedia", NoText)
    /\ UNCHANGED <<svi, ivi, rvi, modal, tts, srs>>

\* getUserMedia resolved: start() runs on
VadStartGranted ==
    /\ vad.starting > 0
    /\ LET s1 == [Begin(vad) EXCEPT !.starting = @ - 1,
                                    !.mediaStream = TRUE,
                                    !.openStreams = @ + 1]
       IN  vad' = IF s1.audioContext /\ s1.mediaStream
                  THEN Emit(VadStartVoiceDetection(
                                [s1 EXCEPT !.analyser = TRUE,
                                           !.isActive = TRUE]),
                            "onListening", <<"true">>)
                  ELSE s1
    /\ vad'.triggers <= MaxTriggers
    /\ UNCHANGED <<svi, ivi, rvi, modal, tts, srs>>

\* getUserMedia rejected: the catch of start()
VadStartDenied ==
    /\ vad.starting > 0
    /\ vad' = Emit(Emit([Begin(vad) EXCEPT !.starting = @ - 1],
                        "onError", <<"Failed to access microphone">>),
                   "throw", NoText)
    /\ UNCHANGED <<svi, ivi, rvi, modal, tts, srs>>

\* The user calls stop()
VadStop ==
    /\ vad' = Emit(VadCleanup(VadStopListening(
                                  [Begin(vad) EXCEPT !.isActive = FALSE])),
                   "onListening", <<"false">>)
    /\ UNCHANGED <<svi, ivi, rvi, modal, tts, srs>>

\* The volume at the microphone changes
VadLevelChange ==
    /\ \E l \in VadLevels \ {vad.level} :
          vad' = [Begin(vad) EXCEPT
                     !.level = l,
                     !.runFires = IF l > VadThreshold THEN @ ELSE 0]
    /\ UNCHANGED <<svi, ivi, rvi, modal, tts, srs>>

\* One pending animation-frame callback runs: the one this.animationFrame
\* names, or another one
VadFrame ==
    /\ vad.frames > 0
    /\ \E named \in BOOLEAN :
          /\ named => vad.afLive
          /\ ~named => vad.frames > (IF vad.afLive THEN 1 ELSE 0)
          /\ vad' = VadDetectVoice(
                        [Begin(vad) EXCEPT
                            !.frames = @ - 1,
                            !.afLive = IF named THEN FALSE ELSE @])
          /\ vad'.triggers <= MaxTriggers
    /\ UNCHANGED <<svi, ivi, rvi, modal, tts, srs>>

\* The recognizer's start event: the object registers no onstart
VadOnStart ==
    /\ vad.rec = "starting"
    /\ vad' = [Begin(vad) EXCEPT !.rec = "running"]
    /\ UNCHANGED <<svi, ivi, rvi, modal, tts, srs>>

\* 1 when a result event carries an utterance for onresult, else 0
VadUtterances(f, i) ==
    IF f # NoText \/ Len(i) > VadInterimCompleteLength THEN 1 ELSE 0

\* recognition.onresult
VadOnResult ==
    /\ vad.rec \in {"running", "stopping"}
    /\ \E currentFinal \in FinalTexts, interimTranscript \in VadInterimTexts :
          /\ vad.delivered + VadUtterances(currentFinal, interimTranscript)
                 <= MaxFinals
          /\ LET s == [Begin(vad) EXCEPT
                          !.delivered =
                              @ + VadUtterances(currentFinal,
                                                interimTranscript),
                          !.rec = RecResult(@),
                          !.quietFor = 0]
             IN  vad' =
                     IF Trim(currentFinal) # NoText
                     THEN VadHandleVoiceEnd(s, Trim(currentFinal))
                     ELSE IF /\ Trim(interimTranscript) # NoText
                             /\ Len(Trim(interimTranscript))
                                    > VadInterimCompleteLength
                             /\ EndsWithPunctuation(Trim(interimTranscript))
                          THEN VadHandleVoiceEnd(s, Trim(interimTranscript))
                          ELSE s
    /\ UNCHANGED <<svi, ivi, rvi, modal, tts, srs>>

\* recognition.onerror
VadOnError ==
    /\ vad.rec \in {"starting", "running", "stopping"}
    /\ \E error \in VadErrors :
          vad' = VadStopListening(
                     Emit([Begin(vad) EXCEPT
                              !.rec = "ending",
                              !.denied = @ \/ error = "not-allowed"],
                          "onError", <<error>>))
    /\ UNCHANGED <<svi, ivi, rvi, modal, tts, srs>>

\* recognition.onend
VadOnEnd ==
    /\ vad.rec \in {"running", "stopping", "flushed", "ending"}
    /\ LET s == [Begin(vad) EXCEPT !.rec = "idle"]
       IN  vad' = IF s.isActive /\ ~s.isListening
                  THEN [s EXCEPT !.restartTimers =
                                     InsertTimer(@, VadEndRestartDelay)]
                  ELSE s
    /\ UNCHANGED <<svi, ivi, rvi, modal, tts, srs>>

\* The callback of the max-listen timer armed by startListening
VadMaxListenFires ==
    /\ vad.maxListenTimer = 0
    /\ vad' = IF vad.isListening
              THEN VadHandleVoiceEnd(VadStopListening(Begin(vad)), NoText)
              ELSE Begin(vad)
    /\ UNCHANGED <<svi, ivi, rvi, modal, tts, srs>>

\* The callback of the timers armed by onend and by handleVoiceEnd
VadRestartFires ==
    /\ vad.restartTimers # << >>
    /\ Head(vad.restartTimers) = 0
    /\ LET s == [Begin(vad) EXCEPT !.restartTimers = Tail(@)]
       IN  vad' = IF s.isActive THEN VadStartVoiceDetection(s) ELSE s
    /\ vad'.triggers <= MaxTriggers
    /\ UNCHANGED <<svi, ivi, rvi, modal, tts, srs>>

\* Time passes, in steps of the delay of handleVoiceEnd
VadAdvance ==
    /\ LET P == Pending(vad.maxListenTimer) \cup PendingAll(vad.restartTimers)
           d == StepOf(P, VadVoiceEndDelay)
       IN  /\ CanAdvance(P)
           /\ vad' = [Begin(vad) EXCEPT
                         !.maxListenTimer = Elapse(@, d),
                         !.restartTimers = ElapseAll(@, d),
                         !.listenedFor =
                             IF vad.isListening THEN @ + d ELSE @,
                         !.quietFor =
                             IF vad.isListening THEN @ + d ELSE @]
    /\ UNCHANGED <<svi, ivi, rvi, modal, tts, srs>>

NextVAD ==
    \/ VadStart
    \/ VadStartGranted
    \/ VadStartDenied
    \/ VadStop
    \/ VadLevelChange
    \/ VadFrame
    \/ VadOnStart
    \/ VadOnResult
    \/ VadOnError
    \/ VadOnEnd
    \/ VadMaxListenFires
    \/ VadRestartFires
    \/ VadAdvance

---------------------------------------------------------------------------
(* ReliableVoiceInput *)

RviMaxDuration == 10000

MicDeniedMessage ==
    <<"Microphone access denied. Please enable microphone permissions in your browser settings.">>

NoSpeechMessage ==
    <<"No speech detected. Please try speaking louder or closer to the microphone.">>

RviInit(recognition) ==
    [ recognition |-> recognition,
      isListening |-> FALSE,
      isEnabled |-> TRUE,
      timeoutTimer |-> NoTimer,
      rec |-> "idle",
      out |-> << >>,
      \* history: whether the recognizer reported not-allowed and enable()
      \* was not called since
      denied |-> FALSE ]

RviStartTimeout(s) == [s EXCEPT !.timeoutTimer = RviMaxDuration]

RviCleanup(s) ==
    [Emit([s EXCEPT !.isListening = FALSE], "onListeningEnd", NoText)
        EXCEPT !.timeoutTimer = NoTimer]

RviHandleResult(s, transcript) ==
    Emit(RviCleanup(s), "onSpeechResult", transcript)

\* A handleError that leaves the input enabled after not-allowed
RviHandleErrorStaysEnabled(s, error) ==
    LET s1 == RviCleanup(s)
    IN  IF error = "not-allowed"
        THEN Emit(s1, "onError", MicDeniedMessage)
        ELSE IF error = "no-speech"
             THEN Emit(s1, "onError", NoSpeechMessage)
             ELSE Emit(s1, "onError", <<error>>)

RviHandleError(s, error) ==
    LET s1 == RviCleanup(s)
    IN  IF error = "not-allowed"
        THEN Emit([s1 EXCEPT !.isEnabled = FALSE], "onError", MicDeniedMessage)
        ELSE IF error = "no-speech"
             THEN Emit(s1, "onError", NoSpeechMessage)
             ELSE Emit(s1, "onError", <<error>>)

RviStartListening(s) ==
    IF ~s.isEnabled \/ s.isListening THEN s
    ELSE IF ~s.recognition THEN s
    ELSE LET s1 == Emit(s, "recognition.start", NoText)
         IN  IF s.rec = "idle"
             THEN [s1 EXCEPT !.rec = "starting"]
             ELSE Emit(Emit(s1, "InvalidStateError", NoText),
                       "onError", <<"Failed to start voice recognition">>)

RviStopCall(s) ==
    IF ~s.isListening THEN s
    ELSE IF s.recognition
         THEN Emit([s EXCEPT !.rec = RecStop(@)], "recognition.stop", NoText)
         ELSE s

RviAbortCall(s) ==
    LET s1 == RviCleanup(s)
    IN  IF s.recognition
        THEN Emit([s1 EXCEPT !.rec = RecAbort(@)], "recognition.abort", NoText)
        ELSE s1

RviEnableCall(s) == [s EXCEPT !.isEnabled = TRUE]

RviDisableCall(s) == RviStopCall([s EXCEPT !.isEnabled = FALSE])

---------------------------------------------------------------------------
(* TTSService *)

TtsChunkPause == 300

\* Texts handed to speak() and to speakLongText(), and chunk sizes
TtsSpeakTexts == { << >>, <<" ">>, <<"o", "k">> }

TtsLongTexts ==
    { <<" ">>,
      <<"a", ".", " ", "b">>,
      <<"a", ".", " ", "b", "!", " ", "c">> }

TtsChunkSizes == {1, 3, 5}

NoUtterance == 0

\* Rate, pitch and volume in tenths: the defaults of the constructor, the
\* limits of setRate, setPitch and setVolume, and the values callers pass
\* (one below the lower limit, the default, one above the upper limit)
TtsDefaultRate == 9
TtsDefaultPitch == 10
TtsDefaultVolume == 8
TtsMinRate == 1
TtsMaxRate == 100
TtsMinPitch == 0
TtsMaxPitch == 20
TtsMinVolume == 0
TtsMaxVolume == 10

TtsRates == {0, TtsDefaultRate, 200}

TtsPitches == {0 - 5, TtsDefaultPitch, 30}

TtsVolumes == {0 - 5, TtsDefaultVolume, 15}

\* Math.max(lo, Math.min(hi, v))
Clamp(lo, hi, v) == IF v < lo THEN lo ELSE IF v > hi THEN hi ELSE v

\* A SpeechSynthesisUtterance: its identity and the caller awaiting it
Utterance(id, by) == [id |-> id, by |-> by]

TtsInit(enabled) ==
    [ enabled |-> enabled,
      synthesis |-> TRUE,
      currentUtterance |-> NoUtterance,
      \* the synthesizer: utterances playing or pending, first is playing,
      \* and utterances it cancelled whose last event is not yet delivered
      queue |-> << >>,
      cancelled |-> {},
      nextId |-> 1,
      \* the running speakLongText call: where it waits, the sentence parts
      \* not yet consumed, the chunk being built, the utterance it awaits
      long |-> [pc |-> "idle",
                sentences |-> << >>,
                currentChunk |-> << >>,
                chunkSize |-> 0,
                awaits |-> NoUtterance],
      delayTimer |-> NoTimer,
      out |-> << >>,
      \* history: whether stop() was called since speakLongText began
      longStopped |-> FALSE,
      \* history of the last speakLongText call: its text, the chunks it
      \* handed to the synthesizer, how often its promise resolved, and
      \* whether it ran so far without a stop() and without an error event
      \* of one of its utterances
      longText |-> NoText,
      spoken |-> << >>,
      longResolves |-> 0,
      longClean |-> FALSE,
      \* this.config, and the properties speak() gave the utterance it
      \* created last
      rate |-> TtsDefaultRate,
      pitch |-> TtsDefaultPitch,
      volume |-> TtsDefaultVolume,
      uttered |-> [rate |-> TtsDefaultRate,
                   pitch |-> TtsDefaultPitch,
                   volume |-> TtsDefaultVolume] ]

\* new TTSService({rate, pitch, volume}): the constructor spreads the
\* caller's config over the defaults
TtsInitWith(rate, pitch, volume) ==
    [TtsInit(TRUE) EXCEPT !.rate = rate, !.pitch = pitch, !.volume = volume]

IsTerminator(c) == c \in {".", "!", "?"}

\* First index from i on whose character fails the test, Len(t) + 1 if none
RECURSIVE SkipTerminators(_, _)
SkipTerminators(t, i) ==
    IF i <= Len(t) /\ IsTerminator(t[i]) THEN SkipTerminators(t, i + 1) ELSE i

RECURSIVE SkipSpaces(_, _)
SkipSpaces(t, i) ==
    IF i <= Len(t) /\ IsSpace(t[i]) THEN SkipSpaces(t, i + 1) ELSE i

\* text.split(/([.!?]+\s+)/) from index i, the current part starting at from
RECURSIVE SplitFrom(_, _, _)
SplitFrom(t, i, from) ==
    IF i > Len(t) THEN <<SubSeq(t, from, Len(t))>>
    ELSE IF IsTerminator(t[i])
         THEN LET j == SkipTerminators(t, i)
                  k == SkipSpaces(t, j)
              IN  IF k > j
                  THEN <<SubSeq(t, from, i - 1), SubSeq(t, i, k - 1)>>
                           \o SplitFrom(t, k, k)
                  ELSE SplitFrom(t, j, from)
         ELSE SplitFrom(t, i + 1, from)

\* parts.filter((part) => part.trim().length > 0)
RECURSIVE FilterNonBlank(_)
FilterNonBlank(parts) ==
    IF parts = << >> THEN << >>
    ELSE IF Len(Trim(Head(parts))) > 0
         THEN <<Head(parts)>> \o FilterNonBlank(Tail(parts))
         ELSE FilterNonBlank(Tail(parts))

SplitIntoSentences(text) == FilterNonBlank(SplitFrom(text, 1, 1))

\* SpeechSynthesis.cancel()
SynthCancel(t) ==
    [t EXCEPT !.cancelled = @ \cup Range(t.queue), !.queue = << >>]

\* A stop() that clears currentUtterance and leaves the synthesizer alone
TtsStopCallKeepsQueue(t) ==
    IF t.synthesis
    THEN [t EXCEPT !.currentUtterance = NoUtterance]
    ELSE t

TtsStopCall(t) ==
    IF t.synthesis
    THEN [Emit(SynthCancel(t), "synthesis.cancel", NoText)
             EXCEPT !.currentUtterance = NoUtterance]
    ELSE t

\* speak(text) called by `by`, up to the return of its promise
TtsSpeakCall(t, text, by) ==
    IF ~t.enabled \/ ~t.synthesis \/ Trim(text) = NoText THEN t
    ELSE LET t1 == TtsStopCall(t)
             u == Utterance(t.nextId, by)
         IN  Emit([t1 EXCEPT !.currentUtterance = u.id,
                             !.uttered = [rate |-> t.rate,
                                          pitch |-> t.pitch,
                                          volume |-> t.volume],
                             !.queue = Append(@, u),
                             !.nextId = @ + 1],
                  "synthesis.speak", text)

\* speakLongText after a speak() it awaited resolved
LongAfterSpeak(t) ==
    IF t.long.pc = "chunk"
    THEN [t EXCEPT !.long.pc = "delay",
                   !.long.awaits = NoUtterance,
                   !.delayTimer = TtsChunkPause]
    ELSE [t EXCEPT !.long.pc = "done", !.long.awaits = NoUtterance,
                   !.longResolves = @ + 1]

\* A speakLongText that does not await the speak() of a chunk
LongSpeakNoAwait(t, text, pc) ==
    LET t1 == TtsSpeakCall([t EXCEPT !.long.pc = pc], text, "long")
    IN  LongAfterSpeak(IF t1.nextId = t.nextId THEN t1
                       ELSE [t1 EXCEPT !.spoken = Append(@, text)])

\* speakLongText calls speak(text) and awaits it
LongSpeak(t, text, pc) ==
    LET t1 == TtsSpeakCall([t EXCEPT !.long.pc = pc], text, "long")
    IN  IF t1.nextId = t.nextId
        THEN LongAfterSpeak(t1)
        ELSE [t1 EXCEPT !.long.awaits = t.nextId,
                        !.spoken = Append(@, text)]

\* The loop of speakLongText, run up to its next await
RECURSIVE LongLoop(_)
LongLoop(t) ==
    LET currentChunk == t.long.currentChunk
    IN  IF t.long.sentences = << >>
        THEN IF Trim(currentChunk) # NoText
             THEN LongSpeak(t, Trim(currentChunk), "last")
             ELSE [t EXCEPT !.long.pc = "done", !.longResolves = @ + 1]
        ELSE LET sentence == Head(t.long.sentences)
             IN  IF Len(currentChunk) + Len(sentence) > t.long.chunkSize
                 THEN IF Trim(currentChunk) # NoText
                      THEN LongSpeak(t, Trim(currentChunk), "chunk")
                      ELSE LongLoop([t EXCEPT
                                        !.long.currentChunk = sentence,
                                        !.long.sentences = Tail(@)])
                 ELSE LongLoop([t EXCEPT
                                   !.long.currentChunk =
                                       (IF currentChunk # NoText
                                        THEN currentChunk \o <<" ">>
                                        ELSE currentChunk) \o sentence,
                                   !.long.sentences = Tail(@)])

\* After the promise of utterance u settled: the continuation of
\* speakLongText when it awaits u
LongSettled(t, u, resolved) ==
    IF t.long.awaits # u.id THEN t
    ELSE IF resolved THEN LongAfterSpeak(t)
         ELSE [t EXCEPT !.long.pc = "failed", !.long.awaits = NoUtterance,
                        !.longClean = FALSE]

\* utterance.onend and utterance.onerror of utterance u
TtsOnEndHandler(t, u) ==
    LongSettled(Emit([t EXCEPT !.currentUtterance = NoUtterance],
                     "resolve", <<u.by>>),
                u, TRUE)

TtsOnErrorHandler(t, u) ==
    LongSettled(Emit([t EXCEPT !.currentUtterance = NoUtterance],
                     "reject", <<u.by>>),
                u, FALSE)

---------------------------------------------------------------------------
(* AITutorModal: its state and its callbacks on the ReliableVoiceInput and *)
(* on the TTSService.  The voice toggle and the greeting of                *)
(* initializeConversation are left out: voiceEnabled keeps its initial     *)
(* value.                                                                  *)

ModalSpeakDelay == 300

ModalReplyTexts == { <<"o", "k">> }

ModalInit ==
    [ isListening |-> FALSE,
      voiceMuted |-> FALSE,
      voiceEnabled |-> TRUE,
      avatarState |-> "idle",
      \* generateResponse calls in flight, and the timers that will speak
      \* a reply
      replies |-> 0,
      speakTimers |-> << >>,
      \* history: calls of handleSendMessage, and whether the voice
      \* input's callback handed it a blank transcript
      sent |-> 0,
      voiceBlank |-> FALSE ]

\* handleSendMessage up to its await of generateResponse
ModalHandleSendMessage(m) ==
    [m EXCEPT !.avatarState = "thinking",
              !.replies = @ + 1,
              !.sent = @ + 1]

\* error.includes("denied")
IncludesDenied(error) == error = MicDeniedMessage

\* The callback the modal registered for one event of its voice input
ModalCallback(m, e) ==
    IF e.ev = "onListeningStart"
    THEN [m EXCEPT !.isListening = TRUE, !.avatarState = "listening"]
    ELSE IF e.ev = "onListeningEnd"
    THEN [m EXCEPT !.isListening = FALSE, !.avatarState = "idle"]
    ELSE IF e.ev = "onSpeechResult"
    THEN LET m1 == [m EXCEPT !.isListening = FALSE,
                             !.avatarState = "thinking"]
         IN  IF Trim(e.text) # NoText
             THEN ModalHandleSendMessage(
                      [m1 EXCEPT !.voiceBlank =
                                     @ \/ Trim(Trim(e.text)) = NoText])
             ELSE m1
    ELSE IF e.ev = "onError"
    THEN [m EXCEPT !.isListening = FALSE,
                   !.avatarState = "idle",
                   !.voiceMuted = IncludesDenied(e.text)]
    ELSE m

\* The modal after the callbacks its voice input emitted, in order
RECURSIVE ModalReact(_, _)
ModalReact(m, out) ==
    IF out = << >> THEN m
    ELSE ModalReact(ModalCallback(m, Head(out)), Tail(out))

\* The finally-callback of a speak() the modal awaits
ModalSpeakSettled(m) == [m EXCEPT !.avatarState = "idle"]

\* The modal after the promise of utterance u settled
ModalSettled(m, u) ==
    IF u.by \in {"reply", "play"} THEN ModalSpeakSettled(m) ELSE m

\* The modal calls speak(text) and awaits it
ModalSpeak(m, t, text, by) ==
    LET t1 == TtsSpeakCall(t, text, by)
        m1 == [m EXCEPT !.avatarState = "speaking"]
    IN  <<IF t1.nextId = t.nextId THEN ModalSpeakSettled(m1) ELSE m1, t1>>

---------------------------------------------------------------------------
(* ReliableVoiceInput: its public methods, the recognizer's events and its *)
(* timer.  The modal's callbacks are registered on it: the modal reacts to *)
(* what a handler emits.                                                   *)

\* startListening() is called
RviStart ==
    /\ rvi' = RviStartListening(Emit(Begin(rvi), "startListening", NoText))
    /\ modal' = ModalReact(modal, rvi'.out)
    /\ UNCHANGED <<svi, ivi, vad, tts, srs>>

\* stop() is called
RviStop ==
    /\ rvi' = RviStopCall(Begin(rvi))
    /\ modal' = ModalReact(modal, rvi'.out)
    /\ UNCHANGED <<svi, ivi, vad, tts, srs>>

\* abort() is called
RviAbort ==
    /\ rvi' = RviAbortCall(Begin(rvi))
    /\ modal' = ModalReact(modal, rvi'.out)
    /\ UNCHANGED <<svi, ivi, vad, tts, srs>>

\* enable() is called
RviEnable ==
    /\ rvi' = RviEnableCall([Begin(rvi) EXCEPT !.denied = FALSE])
    /\ modal' = ModalReact(modal, rvi'.out)
    /\ UNCHANGED <<svi, ivi, vad, tts, srs>>

\* disable() is called
RviDisable ==
    /\ rvi' = RviDisableCall(Begin(rvi))
    /\ modal' = ModalReact(modal, rvi'.out)
    /\ UNCHANGED <<svi, ivi, vad, tts, srs>>

\* recognition.onstart
RviOnStart ==
    /\ rvi.rec = "starting"
    /\ rvi' = RviStartTimeout(Emit([Begin(rvi) EXCEPT !.rec = "running",
                                                      !.isListening = TRUE],
                                   "onListeningStart", NoText))
    /\ modal' = ModalReact(modal, rvi'.out)
    /\ UNCHANGED <<svi, ivi, vad, tts, srs>>

\* recognition.onresult
RviOnResult ==
    /\ rvi.rec \in {"running", "stopping"}
    /\ \E finalTranscript \in FinalTexts :
          LET s == [Begin(rvi) EXCEPT !.rec = RecResult(@)]
          IN  rvi' = IF Trim(finalTranscript) # NoText
                     THEN RviHandleResult(s, Trim(finalTranscript))
                     ELSE s
    /\ modal' = ModalReact(modal, rvi'.out)
    /\ modal'.sent <= MaxMessages
    /\ UNCHANGED <<svi, ivi, vad, tts, srs>>

\* recognition.onerror
RviOnError ==
    /\ rvi.rec \in {"starting", "running", "stopping", "aborting"}
    /\ \E error \in RecErrors :
          /\ (rvi.rec = "aborting") = (error = "aborted")
          /\ rvi' = RviHandleError(
                        Emit([Begin(rvi) EXCEPT
                                 !.rec = "ending",
                                 !.denied = @ \/ error = "not-allowed"],
                             "error", <<error>>),
                        error)
    /\ modal' = ModalReact(modal, rvi'.out)
    /\ UNCHANGED <<svi, ivi, vad, tts, srs>>

\* recognition.onend
RviOnEnd ==
    /\ rvi.rec \in {"running", "stopping", "flushed", "aborting", "ending"}
    /\ rvi' = RviCleanup([Begin(rvi) EXCEPT !.rec = "idle"])
    /\ modal' = ModalReact(modal, rvi'.out)
    /\ UNCHANGED <<svi, ivi, vad, tts, srs>>

\* The callback of the timer armed by startTimeout: stop()
RviTimeoutFires ==
    /\ rvi.timeoutTimer = 0
    /\ rvi' = RviStopCall([Begin(rvi) EXCEPT !.timeoutTimer = NoTimer])
    /\ modal' = ModalReact(modal, rvi'.out)
    /\ UNCHANGED <<svi, ivi, vad, tts, srs>>

\* Time passes for the voice input and the modal, in steps of a quarter of
\* the maximum duration
ModalAdvance ==
    /\ LET P == PendingAll(modal.speakTimers) \cup Pending(rvi.timeoutTimer)
           d == StepOf(P, RviMaxDuration \div 4)
       IN  /\ CanAdvance(P)
           /\ modal' = [modal EXCEPT !.speakTimers = ElapseAll(@, d)]
           /\ rvi' = [Begin(rvi) EXCEPT !.timeoutTimer = Elapse(@, d)]
    /\ tts' = Begin(tts)
    /\ UNCHANGED <<svi, ivi, vad, srs>>

NextReliable ==
    \/ RviStart
    \/ RviStop
    \/ RviAbort
    \/ RviEnable
    \/ RviDisable
    \/ RviOnStart
    \/ RviOnResult
    \/ RviOnError
    \/ RviOnEnd
    \/ RviTimeoutFires
    \/ ModalAdvance

---------------------------------------------------------------------------
(* TTSService: its public methods, the synthesizer's events and the pause  *)
(* of speakLongText                                                        *)

\* speak(text) is called
TtsSpeak ==
    /\ \E text \in TtsSpeakTexts :
          LET t1 == TtsSpeakCall(Begin(tts), text, "speak")
          IN  tts' = [t1 EXCEPT
                         !.longClean = @ /\ t1.nextId = tts.nextId]
    /\ tts'.nextId <= MaxUtterances + 1
    /\ UNCHANGED <<svi, ivi, vad, rvi, modal, srs>>

\* stop() is called
TtsStop ==
    /\ tts' = TtsStopCall(
                  [Begin(tts) EXCEPT
                      !.longStopped =
                          @ \/ tts.long.pc \in {"chunk", "delay", "last"},
                      !.longClean = FALSE])
    /\ UNCHANGED <<svi, ivi, vad, rvi, modal, srs>>

\* enable() is called
TtsEnable ==
    /\ tts' = [Begin(tts) EXCEPT !.enabled = TRUE]
    /\ UNCHANGED <<svi, ivi, vad, rvi, modal, srs>>

\* disable() is called
TtsDisable ==
    /\ tts' = TtsStopCall([Begin(tts) EXCEPT !.enabled = FALSE,
                                              !.longClean = FALSE])
    /\ UNCHANGED <<svi, ivi, vad, rvi, modal, srs>>

\* speakLongText(text, chunkSize) is called: it runs up to its first await
TtsSpeakLongText ==
    /\ tts.long.pc \in {"idle", "done", "failed"}
    /\ \E text \in TtsLongTexts, chunkSize \in TtsChunkSizes :
          tts' = IF ~tts.enabled \/ Trim(text) = NoText THEN Begin(tts)
                 ELSE LongLoop([Begin(tts) EXCEPT
                                   !.long =
                                       [pc |-> "loop",
                                        sentences |-> SplitIntoSentences(text),
                                        currentChunk |-> NoText,
                                        chunkSize |-> chunkSize,
                                        awaits |-> NoUtterance],
                                   !.longStopped = FALSE,
                                   !.longText = text,
                                   !.spoken = << >>,
                                   !.longResolves = 0,
                                   !.longClean = TRUE])
    /\ tts'.nextId <= MaxUtterances + 1
    /\ UNCHANGED <<svi, ivi, vad, rvi, modal, srs>>

\* The utterance that is playing ends: utterance.onend, and the modal when
\* it awaits that speak()
TtsUtteranceEnds ==
    /\ tts.queue # << >>
    /\ tts' = TtsOnEndHandler([Begin(tts) EXCEPT !.queue = Tail(@)],
                              Head(tts.queue))
    /\ modal' = ModalSettled(modal, Head(tts.queue))
    /\ UNCHANGED <<svi, ivi, vad, rvi, srs>>

\* The utterance that is playing fails with a synthesis error:
\* utterance.onerror
TtsUtteranceFails ==
    /\ tts.queue # << >>
    /\ tts' = TtsOnErrorHandler([Begin(tts) EXCEPT !.queue = Tail(@)],
                                Head(tts.queue))
    /\ modal' = ModalSettled(modal, Head(tts.queue))
    /\ UNCHANGED <<svi, ivi, vad, rvi, srs>>

\* The synthesizer reports a cancelled utterance: browsers deliver its end
\* event or an error event
TtsCancelledEnds ==
    /\ \E u \in tts.cancelled :
          /\ tts' = TtsOnEndHandler([Begin(tts) EXCEPT !.cancelled = @ \ {u}],
                                    u)
          /\ modal' = ModalSettled(modal, u)
    /\ UNCHANGED <<svi, ivi, vad, rvi, srs>>

TtsCancelledFails ==
    /\ \E u \in tts.cancelled :
          /\ tts' = TtsOnErrorHandler(
                        [Begin(tts) EXCEPT !.cancelled = @ \ {u}], u)
          /\ modal' = ModalSettled(modal, u)
    /\ UNCHANGED <<svi, ivi, vad, rvi, srs>>

\* The pause after a chunk is over: speakLongText takes the sentence that
\* did not fit and runs on
TtsDelayFires ==
    /\ tts.delayTimer = 0
    /\ tts' = LongLoop([Begin(tts) EXCEPT
                           !.delayTimer = NoTimer,
                           !.long.currentChunk = Head(tts.long.sentences),
                           !.long.sentences = Tail(@)])
    /\ tts'.nextId <= MaxUtterances + 1
    /\ UNCHANGED <<svi, ivi, vad, rvi, modal, srs>>

\* Time passes, in steps of the pause
TtsAdvance ==
    /\ CanAdvance(Pending(tts.delayTimer))
    /\ tts' = [Begin(tts) EXCEPT
                  !.delayTimer =
                      Elapse(@, StepOf(Pending(tts.delayTimer),
                                       TtsChunkPause))]
    /\ UNCHANGED <<svi, ivi, vad, rvi, modal, srs>>

\* setRate(rate), setPitch(pitch), setVolume(volume) are called
TtsSetRate ==
    /\ \E rate \in TtsRates :
          tts' = [Begin(tts) EXCEPT
                     !.rate = Clamp(TtsMinRate, TtsMaxRate, rate)]
    /\ UNCHANGED <<svi, ivi, vad, rvi, modal, srs>>

TtsSetPitch ==
    /\ \E pitch \in TtsPitches :
          tts' = [Begin(tts) EXCEPT
                     !.pitch = Clamp(TtsMinPitch, TtsMaxPitch, pitch)]
    /\ UNCHANGED <<svi, ivi, vad, rvi, modal, srs>>

TtsSetVolume ==
    /\ \E volume \in TtsVolumes :
          tts' = [Begin(tts) EXCEPT
                     !.volume = Clamp(TtsMinVolume, TtsMaxVolume, volume)]
    /\ UNCHANGED <<svi, ivi, vad, rvi, modal, srs>>

NextTTS ==
    \/ TtsSpeak
    \/ TtsStop
    \/ TtsEnable
    \/ TtsDisable
    \/ TtsSpeakLongText
    \/ TtsUtteranceEnds
    \/ TtsUtteranceFails
    \/ TtsCancelledEnds
    \/ TtsCancelledFails
    \/ TtsDelayFires
    \/ TtsAdvance

---------------------------------------------------------------------------
(* AITutorModal: the user's actions and the modal's timers                 *)

\* The microphone button of the chat input: startVoiceInput
ModalStartVoiceInput ==
    /\ ~modal.isListening
    /\ ~modal.voiceMuted
    /\ RviStart

\* The stop-listening button
ModalStopListening ==
    /\ modal.isListening
    /\ ~modal.voiceMuted
    /\ RviStop

\* The mute button
ModalToggleMute ==
    /\ rvi' = IF ~modal.voiceMuted
              THEN RviDisableCall(Begin(rvi))
              ELSE RviEnableCall([Begin(rvi) EXCEPT !.denied = FALSE])
    /\ modal' = ModalReact([modal EXCEPT !.voiceMuted = ~@], rvi'.out)
    /\ UNCHANGED <<svi, ivi, vad, tts, srs>>

\* A typed question: handleSendMessage
ModalSendMessage ==
    /\ modal.sent < MaxMessages
    /\ modal' = ModalHandleSendMessage(modal)
    /\ rvi' = Begin(rvi)
    /\ tts' = Begin(tts)
    /\ UNCHANGED <<svi, ivi, vad, srs>>

\* generateResponse resolved: handleSendMessage runs on
ModalReplyArrives ==
    /\ modal.replies > 0
    /\ LET m1 == [modal EXCEPT !.replies = @ - 1, !.avatarState = "idle"]
       IN  modal' = IF modal.voiceEnabled
                    THEN [m1 EXCEPT
                             !.speakTimers = Append(@, ModalSpeakDelay)]
                    ELSE m1
    /\ rvi' = Begin(rvi)
    /\ tts' = Begin(tts)
    /\ UNCHANGED <<svi, ivi, vad, srs>>

\* generateResponse rejected: the catch of handleSendMessage
ModalReplyFails ==
    /\ modal.replies > 0
    /\ modal' = [modal EXCEPT !.replies = @ - 1, !.avatarState = "idle"]
    /\ rvi' = Begin(rvi)
    /\ tts' = Begin(tts)
    /\ UNCHANGED <<svi, ivi, vad, srs>>

\* The callback of the timer that speaks a reply
ModalSpeakTimerFires ==
    /\ modal.speakTimers # << >>
    /\ Head(modal.speakTimers) = 0
    /\ \E text \in ModalReplyTexts :
          LET r == ModalSpeak([modal EXCEPT !.speakTimers = Tail(@)],
                              Begin(tts), text, "reply")
          IN  modal' = r[1] /\ tts' = r[2]
    /\ tts'.nextId <= MaxUtterances + 1
    /\ rvi' = Begin(rvi)
    /\ UNCHANGED <<svi, ivi, vad, srs>>

\* The play button of a message: handlePlayAudio
ModalPlayAudio ==
    /\ modal.voiceEnabled
    /\ \E text \in ModalReplyTexts :
          LET r == ModalSpeak(modal, Begin(tts), text, "play")
          IN  modal' = r[1] /\ tts' = r[2]
    /\ tts'.nextId <= MaxUtterances + 1
    /\ rvi' = Begin(rvi)
    /\ UNCHANGED <<svi, ivi, vad, srs>>

\* handleStop
ModalStop ==
    /\ tts' = TtsStopCall(Begin(tts))
    /\ modal' = [modal EXCEPT !.avatarState = "idle"]
    /\ rvi' = Begin(rvi)
    /\ UNCHANGED <<svi, ivi, vad, srs>>

\* handleClose
ModalClose ==
    /\ tts' = TtsStopCall(Begin(tts))
    /\ rvi' = RviAbortCall(Begin(rvi))
    /\ modal' = [ModalReact(modal, rvi'.out) EXCEPT
                    !.avatarState = "idle", !.isListening = FALSE]
    /\ UNCHANGED <<svi, ivi, vad, srs>>

NextModal ==
    \/ ModalStartVoiceInput
    \/ ModalStopListening
    \/ ModalToggleMute
    \/ ModalSendMessage
    \/ ModalReplyArrives
    \/ ModalReplyFails
    \/ ModalSpeakTimerFires
    \/ ModalPlayAudio
    \/ ModalStop
    \/ ModalClose
    \/ RviOnStart
    \/ RviOnResult
    \/ RviOnError
    \/ RviOnEnd
    \/ RviTimeoutFires
    \/ TtsUtteranceEnds
    \/ TtsUtteranceFails
    \/ TtsCancelledEnds
    \/ TtsCancelledFails
    \/ ModalAdvance

---------------------------------------------------------------------------
(* SpeechRecognitionService: one call of captureQuestion                   *)

\* The delay of the auto-stop timer of captureQuestion, ms
SrsCaptureTimeout == 10000

SrsInit(recognition) ==
    [ recognition |-> recognition,
      isListening |-> FALSE,
      rec |-> "idle",
      \* the locals of the latest captureQuestion and the state of the
      \* promise it returned: "none" before the call, then "pending",
      \* "resolved" or "rejected" with the value or the message of the error
      finalResult |-> NoText,
      timeout |-> NoTimer,
      \* the timers of earlier calls that are still pending, soonest first
      staleTimeouts |-> << >>,
      promise |-> "none",
      value |-> NoText,
      out |-> << >>,
      \* history: the last non-blank final transcript the recognizer
      \* delivered for the capture
      yielded |-> NoText,
      captures |-> 0 ]

\* resolve(value) or reject(new Error(value)) of the promise of
\* captureQuestion: a settled promise stays as it is
SrsSettle(s, how, value) ==
    IF s.promise = "pending"
    THEN Emit([s EXCEPT !.promise = how, !.value = value], how, value)
    ELSE s

SrsStopCall(s) ==
    IF s.recognition /\ s.isListening
    THEN Emit([s EXCEPT !.rec = RecStop(@)], "recognition.stop", NoText)
    ELSE s

\* The user calls captureQuestion() when no earlier call is pending: it
\* installs its callbacks, arms its timer and calls start()
SrsCaptureQuestion ==
    /\ srs.promise # "pending"
    /\ srs.captures < MaxCaptures
    /\ LET s0 == [Begin(srs) EXCEPT !.promise = "pending",
                                    !.value = NoText,
                                    !.yielded = NoText,
                                    !.captures = @ + 1]
           s1 == [s0 EXCEPT !.finalResult = NoText,
                            !.timeout = SrsCaptureTimeout,
                            !.staleTimeouts =
                                IF s0.timeout # NoTimer
                                THEN InsertTimer(@, s0.timeout)
                                ELSE @]
           s2 == Emit(s1, "recognition.start", NoText)
       IN  srs' = IF ~s0.recognition
                  THEN SrsSettle(s0, "rejected",
                                 <<"Speech recognition not supported">>)
                  ELSE IF s1.isListening THEN s1
                  ELSE IF s1.rec = "idle"
                       THEN [s2 EXCEPT !.rec = "starting"]
                       ELSE SrsSettle(Emit(s2, "InvalidStateError", NoText),
                                      "rejected", <<"InvalidStateError">>)
    /\ UNCHANGED <<svi, ivi, vad, rvi, modal, tts>>

\* recognition.onstart
SrsOnStart ==
    /\ srs.rec = "starting"
    /\ srs' = Emit([Begin(srs) EXCEPT !.rec = "running",
                                      !.isListening = TRUE],
                   "onStart", NoText)
    /\ UNCHANGED <<svi, ivi, vad, rvi, modal, tts>>

\* recognition.onresult, and the onResult callback of captureQuestion
SrsOnResult ==
    /\ srs.rec \in {"running", "stopping"}
    /\ \E finalTranscript \in FinalTexts, interimTranscript \in InterimTexts :
          LET currentTranscript == IF finalTranscript # NoText
                                   THEN finalTranscript
                                   ELSE interimTranscript
              isFinal == Len(finalTranscript) > 0
              s0 == [Begin(srs) EXCEPT
                        !.rec = RecResult(@),
                        !.yielded = IF Trim(finalTranscript) # NoText
                                    THEN Trim(finalTranscript)
                                    ELSE @]
              s1 == Emit(s0, "onResult", Trim(currentTranscript))
          IN  srs' = IF Trim(currentTranscript) = NoText THEN s0
                     ELSE IF isFinal
                          THEN SrsStopCall(
                                   [s1 EXCEPT
                                       !.finalResult = Trim(currentTranscript),
                                       !.timeout = NoTimer])
                          ELSE s1
    /\ UNCHANGED <<svi, ivi, vad, rvi, modal, tts>>

\* recognition.onend, and the onEnd callback of captureQuestion
SrsOnEnd ==
    /\ srs.rec \in {"running", "stopping", "flushed", "ending"}
    /\ LET s == Emit([Begin(srs) EXCEPT !.rec = "idle",
                                        !.isListening = FALSE],
                     "onEnd", NoText)
       IN  srs' = IF Trim(s.finalResult) # NoText
                  THEN SrsSettle(s, "resolved", Trim(s.finalResult))
                  ELSE SrsSettle(s, "rejected", <<"No speech detected">>)
    /\ UNCHANGED <<svi, ivi, vad, rvi, modal, tts>>

\* recognition.onerror with getErrorMessage, and the onError callback of
\* captureQuestion followed by the one start() wrapped around it
SrsOnError ==
    /\ srs.rec \in {"starting", "running", "stopping"}
    /\ \E error \in {"no-speech", "network"} :
          LET errorMessage ==
                  IF error = "no-speech"
                  THEN <<"No speech was detected. Please try again.">>
                  ELSE <<"Network error occurred. Please check your connection.">>
              s == Emit([Begin(srs) EXCEPT !.rec = "ending",
                                           !.isListening = FALSE,
                                           !.timeout = NoTimer],
                        "onError", errorMessage)
          IN  srs' = SrsSettle(s, "rejected", errorMessage)
    /\ UNCHANGED <<svi, ivi, vad, rvi, modal, tts>>

\* The callback of the auto-stop timer of captureQuestion
SrsTimeoutFires ==
    /\ srs.timeout = 0
    /\ LET s == SrsStopCall([Begin(srs) EXCEPT !.timeout = NoTimer])
       IN  srs' = IF Trim(s.finalResult) # NoText
                  THEN SrsSettle(s, "resolved", Trim(s.finalResult))
                  ELSE SrsSettle(s, "rejected",
                                 <<"Speech recognition timeout">>)
    /\ UNCHANGED <<svi, ivi, vad, rvi, modal, tts>>

\* The callback of the auto-stop timer of an earlier captureQuestion,
\* whose promise is settled
SrsStaleTimeoutFires ==
    /\ srs.staleTimeouts # << >>
    /\ Head(srs.staleTimeouts) = 0
    /\ srs' = SrsStopCall([Begin(srs) EXCEPT !.staleTimeouts = Tail(@)])
    /\ UNCHANGED <<svi, ivi, vad, rvi, modal, tts>>

\* Time passes, in steps of half the delay of the auto-stop timer
SrsAdvance ==
    /\ LET P == Pending(srs.timeout) \cup PendingAll(srs.staleTimeouts)
           d == StepOf(P, SrsCaptureTimeout \div 2)
       IN  /\ CanAdvance(P)
           /\ srs' = [Begin(srs) EXCEPT !.timeout = Elapse(@, d),
                                        !.staleTimeouts = ElapseAll(@, d)]
    /\ UNCHANGED <<svi, ivi, vad, rvi, modal, tts>>

NextCapture ==
    \/ SrsCaptureQuestion
    \/ SrsOnStart
    \/ SrsOnResult
    \/ SrsOnEnd
    \/ SrsOnError
    \/ SrsTimeoutFires
    \/ SrsStaleTimeoutFires
    \/ SrsAdvance

---------------------------------------------------------------------------
(* Specifications: one per service object, the other objects left as       *)
(* built; the modal follows its voice input and its TTS service            *)

InitSimple ==
    /\ svi = SviInit
    /\ ivi = IviInit(TRUE, 10)
    /\ vad = VadInit(5)
    /\ rvi = RviInit(TRUE)
    /\ modal = ModalInit
    /\ tts = TtsInit(TRUE)
    /\ srs = SrsInit(TRUE)

SpecSimple == InitSimple /\ [][NextSimple]_vars

InitInterruptible ==
    /\ svi = SviInit
    /\ ivi \in {IviInit(r, l) : r \in BOOLEAN, l \in IviLevels}
    /\ vad = VadInit(5)
    /\ rvi = RviInit(TRUE)
    /\ modal = ModalInit
    /\ tts = TtsInit(TRUE)
    /\ srs = SrsInit(TRUE)

SpecInterruptible == InitInterruptible /\ [][NextInterruptible]_vars

InitVAD ==
    /\ svi = SviInit
    /\ ivi = IviInit(TRUE, 10)
    /\ vad \in {VadInit(l) : l \in VadLevels}
    /\ rvi = RviInit(TRUE)
    /\ modal = ModalInit
    /\ tts = TtsInit(TRUE)
    /\ srs = SrsInit(TRUE)

SpecVAD == InitVAD /\ [][NextVAD]_vars

InitReliable ==
    /\ svi = SviInit
    /\ ivi = IviInit(TRUE, 10)
    /\ vad = VadInit(5)
    /\ rvi \in {RviInit(r) : r \in BOOLEAN}
    /\ modal = ModalInit
    /\ tts = TtsInit(TRUE)
    /\ srs = SrsInit(TRUE)

SpecReliable == InitReliable /\ [][NextReliable]_vars

InitTTS ==
    /\ svi = SviInit
    /\ ivi = IviInit(TRUE, 10)
    /\ vad = VadInit(5)
    /\ rvi = RviInit(TRUE)
    /\ modal = ModalInit
    /\ tts \in {TtsInit(e) : e \in BOOLEAN}
    /\ srs = SrsInit(TRUE)

SpecTTS == InitTTS /\ [][NextTTS]_vars

InitModal ==
    /\ svi = SviInit
    /\ ivi = IviInit(TRUE, 10)
    /\ vad = VadInit(5)
    /\ rvi = RviInit(TRUE)
    /\ modal = ModalInit
    /\ tts = TtsInit(TRUE)
    /\ srs = SrsInit(TRUE)

SpecModal == InitModal /\ [][NextModal]_vars

InitCapture ==
    /\ svi = SviInit
    /\ ivi = IviInit(TRUE, 10)
    /\ vad = VadInit(5)
    /\ rvi = RviInit(TRUE)
    /\ modal = ModalInit
    /\ tts = TtsInit(TRUE)
    /\ srs \in {SrsInit(r) : r \in BOOLEAN}

SpecCapture == InitCapture /\ [][NextCapture]_vars

\* InterruptibleVoiceInput while the assistant never speaks: nobody calls
\* setAISpeaking
NextInterruptibleSilent ==
    \/ IviStart
    \/ IviStartGranted
    \/ IviStartDenied
    \/ IviStop
    \/ IviLevelChange
    \/ IviFrame
    \/ IviOnStart
    \/ IviOnResult
    \/ IviOnError
    \/ IviOnEnd
    \/ IviSilenceFires
    \/ IviCooldownFires
    \/ IviAdvance

SpecInterruptibleSilent ==
    InitInterruptible /\ [][NextInterruptibleSilent]_vars

\* InterruptibleVoiceInput with timers that run when due and time that
\* passes: the browser's event loop runs a timer callback that is due, and
\* no handler holds it up forever
SpecInterruptibleFair ==
    /\ SpecInterruptible
    /\ WF_vars(IviAdvance)
    /\ WF_vars(IviSilenceFires)
    /\ WF_vars(IviCooldownFires)

\* A page that uses either InterruptibleVoiceInput or the tutor modal with
\* its ReliableVoiceInput
IviUnused == ivi = IviInit(TRUE, 10)

ModalUnused == rvi = RviInit(TRUE) /\ modal = ModalInit /\ tts = TtsInit(TRUE)

NextInterruptibleOrReliable ==
    \/ ModalUnused /\ IviStart
    \/ ModalUnused /\ IviStartGranted
    \/ ModalUnused /\ IviStartDenied
    \/ ModalUnused /\ IviStop
    \/ ModalUnused /\ IviSetAISpeaking
    \/ ModalUnused /\ IviLevelChange
    \/ ModalUnused /\ IviFrame
    \/ ModalUnused /\ IviOnStart
    \/ ModalUnused /\ IviOnResult
    \/ ModalUnused /\ IviOnError
    \/ ModalUnused /\ IviOnEnd
    \/ ModalUnused /\ IviSilenceFires
    \/ ModalUnused /\ IviCooldownFires
    \/ ModalUnused /\ IviAdvance
    \/ IviUnused /\ RviStart
    \/ IviUnused /\ RviStop
    \/ IviUnused /\ RviAbort
    \/ IviUnused /\ RviEnable
    \/ IviUnused /\ RviDisable
    \/ IviUnused /\ RviOnStart
    \/ IviUnused /\ RviOnResult
    \/ IviUnused /\ RviOnError
    \/ IviUnused /\ RviOnEnd
    \/ IviUnused /\ RviTimeoutFires
    \/ IviUnused /\ ModalAdvance

SpecInterruptibleOrReliable ==
    InitInterruptible /\ [][NextInterruptibleOrReliable]_vars

\* TTSService constructed with a caller's rate, pitch and volume, its
\* setters, speak() and stop(), and the synthesizer's events
InitTTSConfig ==
    /\ svi = SviInit
    /\ ivi = IviInit(TRUE, 10)
    /\ vad = VadInit(5)
    /\ rvi = RviInit(TRUE)
    /\ modal = ModalInit
    /\ tts \in {TtsInitWith(r, p, v) :
                    r \in TtsRates, p \in TtsPitches, v \in TtsVolumes}
    /\ srs = SrsInit(TRUE)

NextTTSConfig ==
    \/ TtsSetRate
    \/ TtsSetPitch
    \/ TtsSetVolume
    \/ TtsSpeak
    \/ TtsStop
    \/ TtsUtteranceEnds
    \/ TtsCancelledEnds

SpecTTSConfig == InitTTSConfig /\ [][NextTTSConfig]_vars

\* A page that uses either SimpleVoiceInput or VoiceActivityDetection: the
\* object it does not use stays as constructed
SviUnused == svi = SviInit

VadUnused == vad \in {VadInit(l) : l \in VadLevels}

NextSimpleOrVAD ==
    \/ VadUnused /\ SviStart
    \/ VadUnused /\ SviStop
    \/ VadUnused /\ SviAbort
    \/ VadUnused /\ SviOnStart
    \/ VadUnused /\ SviOnResult
    \/ VadUnused /\ SviOnError
    \/ VadUnused /\ SviOnEnd
    \/ VadUnused /\ SviTimeoutFires
    \/ VadUnused /\ SviSilenceFires
    \/ VadUnused /\ SviRestartFires
    \/ VadUnused /\ SviAdvance
    \/ SviUnused /\ VadStart
    \/ SviUnused /\ VadStartGranted
    \/ SviUnused /\ VadStartDenied
    \/ SviUnused /\ VadStop
    \/ SviUnused /\ VadLevelChange
    \/ SviUnused /\ VadFrame
    \/ SviUnused /\ VadOnStart
    \/ SviUnused /\ VadOnResult
    \/ SviUnused /\ VadOnError
    \/ SviUnused /\ VadOnEnd
    \/ SviUnused /\ VadMaxListenFires
    \/ SviUnused /\ VadRestartFires
    \/ SviUnused /\ VadAdvance

SpecSimpleOrVAD == InitVAD /\ [][NextSimpleOrVAD]_vars

---------------------------------------------------------------------------
(* Claims *)

\* C1: in one recognizer session SimpleVoiceInput emits onComplete and
\* InterruptibleVoiceInput emits onUserSpeechEnd at most once, whatever
\* order the timers, stop(), late results and the end event arrive in.
C1_FinalizeOncePerSession ==
    /\ svi.sessionCompletes <= 1
    /\ ivi.sessionEmits <= 1

\* C2: between one onVoiceStart and the next, VoiceActivityDetection emits
\* onVoiceEnd at most once.
C2_OneVoiceEndPerSession ==
    vad.sessionEnds <= 1

\* C3: while the volume stays above the threshold, onUserSpeakingDetected
\* (InterruptibleVoiceInput) and onVoiceStart (VoiceActivityDetection) are
\* raised at most once.
C3_OneVoiceStartPerRun ==
    /\ ivi.runFires <= 1
    /\ vad.runFires <= 1

\* C4: in every handler run of InterruptibleVoiceInput a request of
\* recognition.start() is preceded by onUserSpeakingDetected emitted in
\* the same run.
C4_SignalBeforeRecognizerStart ==
    \A j \in 1..Len(ivi.out) :
        ivi.out[j].ev = "recognition.start"
            => \E i \in 1..(j - 1) : ivi.out[i].ev = "onUserSpeakingDetected"

\* C4 witness: a trigger signalled and then had recognition.start() accepted
C4_Witness ==
    /\ HasEv(ivi.out, "onUserSpeakingDetected")
    /\ HasEv(ivi.out, "recognition.start")
    /\ ivi.rec = "starting"

\* C5: in the modal, the voice input is never listening while an utterance
\* handed to the synthesizer by speak() is playing or pending.
C5_NeverListeningWhileSpeaking ==
    ~(rvi.isListening /\ tts.queue # << >>)

\* C6: after the recognizer reported not-allowed, and until enable() is
\* called, ReliableVoiceInput is disabled and no handler requests
\* recognition.start(); the handler of that error emits onError exactly
\* once, with the message about microphone permissions.
C6_DeniedDisablesUntilEnable ==
    /\ rvi.denied => ~rvi.isEnabled /\ ~HasEv(rvi.out, "recognition.start")
    /\ Event("error", <<"not-allowed">>) \in Range(rvi.out)
           => /\ CountEv(rvi.out, "onError") = 1
              /\ Event("onError", MicDeniedMessage) \in Range(rvi.out)

\* C6 witness: startListening() was called after not-allowed and before
\* enable(), with the recognizer idle again, and requested nothing
C6_Witness ==
    /\ rvi.denied
    /\ rvi.rec = "idle"
    /\ rvi.out = <<Event("startListening", NoText)>>

\* C7: after the recognizer reported not-allowed, and until the user calls
\* start(), VoiceActivityDetection is not active and no handler requests
\* recognition.start().
C7_DeniedIsTerminal ==
    vad.denied => ~vad.isActive /\ ~HasEv(vad.out, "recognition.start")

\* C8: after InterruptibleVoiceInput.stop(), and until the next call of a
\* public method, currentStatus is "idle", whatever recognizer events and
\* timers fire.
C8_IdleAfterStop ==
    ivi.afterStop => ivi.currentStatus = "idle"

\* C9: after stop() or abort() of SimpleVoiceInput, and until the user
\* calls start(), no handler requests recognition.start().
C9_NoStartAfterUserStop ==
    svi.userStopped => ~HasEv(svi.out, "recognition.start")

\* C10: once stop() was called during speakLongText, the synthesizer holds
\* no chunk of that text, playing or pending.
C10_StopCancelsRemainingChunks ==
    tts.longStopped => \A i \in 1..Len(tts.queue) : tts.queue[i].by # "long"

\* The characters of a text that are not white space, and the chunks of a
\* sequence of chunks laid end to end
RECURSIVE NonSpace(_)
NonSpace(t) ==
    IF t = << >> THEN << >>
    ELSE IF IsSpace(Head(t)) THEN NonSpace(Tail(t))
         ELSE <<Head(t)>> \o NonSpace(Tail(t))

RECURSIVE Flatten(_)
Flatten(chunks) ==
    IF chunks = << >> THEN << >> ELSE Head(chunks) \o Flatten(Tail(chunks))

IsPrefix(a, b) == Len(a) <= Len(b) /\ SubSeq(b, 1, Len(a)) = a

LongUtterances(us) == {u \in us : u.by = "long"}

\* C11: while speakLongText runs without a stop() and without a synthesis
\* error, the chunks it has handed to the synthesizer are the text in order,
\* at most one of them is with the synthesizer and none was cut off by the
\* next one, and its promise resolves once, when every chunk was played to
\* its end and the whole text was spoken
C11_ChunksInOrderOneAtATime ==
    tts.longClean =>
        /\ LongUtterances(tts.cancelled) = {}
        /\ Cardinality(LongUtterances(Range(tts.queue))) <= 1
        /\ IsPrefix(NonSpace(Flatten(tts.spoken)), NonSpace(tts.longText))
        /\ tts.longResolves = (IF tts.long.pc = "done" THEN 1 ELSE 0)
        /\ tts.long.pc = "done" =>
               /\ LongUtterances(Range(tts.queue)) = {}
               /\ NonSpace(Flatten(tts.spoken)) = NonSpace(tts.longText)

C11_Witness ==
    /\ tts.longClean
    /\ tts.long.pc = "done"
    /\ Len(tts.spoken) >= 2
    /\ HasEv(tts.out, "resolve")

\* C12: in InterruptibleVoiceInput every result event leaves the silence
\* countdown at its full length, at most one silence timeout is scheduled
\* at any time, and a pending silence timer has as much left as is missing
\* to the silence timeout since the last result event or, when later,
\* since the recognizer was asked to listen: it comes due exactly when
\* the silence timeout has passed since then, never earlier
C12_SilenceCountsFromLastResult ==
    /\ [](/\ ivi.silenceArmed <= 1
          /\ ivi.silenceTimer # NoTimer =>
                 ivi.silenceTimer + ivi.sinceSpeech = IviSilenceTimeout)
    /\ [][IviOnResult =>
              /\ ivi'.silenceTimer = IviSilenceTimeout
              /\ ivi'.silenceArmed = 1]_vars

C12_Witness ==
    /\ ivi.rec = "stopping"
    /\ ivi.delivered >= 1
    /\ HasEv(ivi.out, "onUserSpeechEnd")
    /\ ivi.sinceSpeech = IviSilenceTimeout

\* C13: in SimpleVoiceInput a result event that arrives while listening
\* never finalizes the turn itself: it emits no onComplete and leaves
\* listening on, so that only the silence timer, 2000 ms after the last
\* fragment, finalizes
C13_FragmentNeverFinalizes ==
    [][SviOnResult /\ svi.isListening =>
           /\ svi'.isListening
           /\ ~HasEv(svi'.out, "onComplete")]_vars

\* C14: in SimpleVoiceInput and in VoiceActivityDetection the max-duration
\* timer runs from the beginning of every listening period, a result event
\* never restarts it, its callback leaves isListening false, and no
\* listening period lasts longer than timeout / maxListenTime
C14_MaxDurationBoundsListening ==
    /\ [](/\ svi.isListening =>
                 /\ svi.timeoutTimer # NoTimer
                 /\ svi.timeoutTimer + svi.listenedFor = SviTimeout
          /\ svi.listenedFor <= SviTimeout
          /\ vad.isListening =>
                 /\ vad.maxListenTimer # NoTimer
                 /\ vad.maxListenTimer + vad.listenedFor = VadMaxListenTime
          /\ vad.listenedFor <= VadMaxListenTime)
    /\ [][/\ SviOnResult => svi'.timeoutTimer \in {svi.timeoutTimer, NoTimer}
          /\ VadOnResult =>
                 vad'.maxListenTimer \in {vad.maxListenTimer, NoTimer}
          /\ SviTimeoutFires => ~svi'.isListening
          /\ VadMaxListenFires => ~vad'.isListening]_vars

\* The max-duration timer of SimpleVoiceInput is due in a listening period
\* whose silence timer result events kept restarting
C14_Witness ==
    /\ svi.isListening
    /\ svi.timeoutTimer = 0
    /\ svi.listenedFor = SviTimeout
    /\ svi.silenceTimer > 0
    /\ svi.delivered >= 1

\* C15: every listening session of InterruptibleVoiceInput that no stop()
\* and no recognizer error ends reaches processing, also when the
\* recognizer keeps delivering result events and never ends
C15_ListeningReachesProcessing ==
    (ivi.isListening /\ ivi.isActive)
        ~> (ivi.isProcessing \/ ~ivi.isListening \/ ~ivi.isActive)

\* C16: VoiceActivityDetection is never listening when more than
\* debounceTime has passed in the listening period without a result event
C16_ListeningStopsAfterDebounce ==
    vad.isListening => vad.quietFor <= VadDebounceTime

\* C17: when the recognizer of SimpleVoiceInput ends by itself while the
\* object is listening, the end event's handler calls onComplete exactly
\* once, with the accumulated final text, also when that text is empty
C17_NaturalEndCompletesOnce ==
    [][SviOnEnd /\ svi.rec = "running" /\ svi.isListening =>
           /\ CountEv(svi'.out, "onComplete") = 1
           /\ HasEv(svi'.out, "onComplete") =>
                  \E i \in 1..Len(svi'.out) :
                      /\ svi'.out[i].ev = "onComplete"
                      /\ svi'.out[i].text = Trim(svi.finalTranscript)]_vars

\* C18: InterruptibleVoiceInput never emits onUserSpeechEnd with a blank
\* text, every turn it processes has its return scheduled and that return
\* leaves an active engine in 'detecting', and the modal never hands a
\* blank voice transcript to handleSendMessage
C18_BlankUtteranceNeverSent ==
    /\ [](/\ \A i \in 1..Len(ivi.out) :
                 ivi.out[i].ev = "onUserSpeechEnd" =>
                     Trim(ivi.out[i].text) # NoText
          /\ ivi.isProcessing => ivi.cooldownTimers # << >>
          /\ ~modal.voiceBlank)
    /\ [][IviCooldownFires /\ ivi.isActive =>
              ivi'.currentStatus = "detecting"]_vars

\* A turn whose only final text was blank is over: nothing was emitted and
\* the engine is back in 'detecting'
C18_Witness ==
    /\ ivi.isActive
    /\ ivi.delivered >= 1
    /\ ivi.sessionEmits = 0
    /\ ~ivi.isProcessing
    /\ ivi.rec \in {"stopping", "flushed", "idle"}
    /\ ivi.currentStatus = "detecting"
    /\ HasEv(ivi.out, "onStatusChange")
    /\ ~HasEv(ivi.out, "onUserSpeakingDetected")

\* The callbacks of SimpleVoiceInput among the events of a handler
SviCallbacks(out) ==
    {i \in 1..Len(out) :
        out[i].ev \in {"onStart", "onTranscript", "onComplete", "onStop",
                       "onError"}}

\* C19: SimpleVoiceInput.abort() called while not listening emits no
\* callback and leaves the object's fields as they were
C19_AbortWhenIdleIsSilent ==
    [][SviAbort /\ ~svi.isListening =>
           /\ SviCallbacks(svi'.out) = {}
           /\ svi'.isListening = svi.isListening
           /\ svi'.finalTranscript = svi.finalTranscript
           /\ svi'.timeoutTimer = svi.timeoutTimer
           /\ svi'.silenceTimer = svi.silenceTimer]_vars

\* C20: whenever InterruptibleVoiceInput is inactive and no start() call
\* awaits the microphone grant, no media stream is open
C20_InactiveHoldsNoStream ==
    (~ivi.isActive /\ ivi.starting = 0) =>
        (ivi.openStreams = 0 /\ ~ivi.mediaStream)

\* C21: when the microphone is granted to a start() of
\* InterruptibleVoiceInput during which no stop() ran, also one called
\* after an earlier stop(), the engine is active with status 'detecting'
C21_StartAfterStopActivates ==
    [][IviStartGranted /\ ~ivi.stoppedInFlight =>
           ivi'.isActive /\ ivi'.currentStatus = "detecting"]_vars

\* C22: when getUserMedia rejects, start() of InterruptibleVoiceInput emits
\* onError once and throws, asks for the microphone no second time, and
\* leaves the engine as it was: an inactive engine stays inactive and
\* 'idle' with no detection frame scheduled
C22_DeniedStartChangesNothing ==
    [][IviStartDenied =>
           /\ CountEv(ivi'.out, "onError") = 1
           /\ HasEv(ivi'.out, "throw")
           /\ ~HasEv(ivi'.out, "getUserMedia")
           /\ ivi'.starting = ivi.starting - 1
           /\ ivi'.isActive = ivi.isActive
           /\ ivi'.currentStatus = ivi.currentStatus
           /\ ivi'.frames = ivi.frames
           /\ ivi'.afLive = ivi.afLive
           /\ ivi'.mediaStream = ivi.mediaStream
           /\ ivi'.analyser = ivi.analyser
           /\ ivi'.rec = ivi.rec
           /\ ivi'.isListening = ivi.isListening]_vars

\* The only start() of a fresh engine was rejected
C22_Witness ==
    /\ HasEv(ivi.out, "throw")
    /\ HasEv(ivi.out, "onError")
    /\ ivi.userStarts = 1
    /\ ivi.starting = 0
    /\ ~ivi.isActive
    /\ ivi.currentStatus = "idle"
    /\ ivi.frames = 0

\* C23: the utterance TTSService created last has its rate within
\* [0.1, 10], its pitch within [0, 2] and its volume within [0, 1]
C23_UtteranceWithinRanges ==
    tts.nextId > 1 =>
        /\ tts.uttered.rate >= TtsMinRate /\ tts.uttered.rate <= TtsMaxRate
        /\ tts.uttered.pitch >= TtsMinPitch
        /\ tts.uttered.pitch <= TtsMaxPitch
        /\ tts.uttered.volume >= TtsMinVolume
        /\ tts.uttered.volume <= TtsMaxVolume

\* C24: the synthesizer never holds more than one utterance playing or
\* pending, and the one it holds is the one speak() created last
C24_OneUtteranceAtATime ==
    /\ Len(tts.queue) <= 1
    /\ \A i \in 1..Len(tts.queue) : tts.queue[i].id = tts.nextId - 1

\* A speak() replaced an utterance that was still with the synthesizer
C24_Witness ==
    /\ Len(tts.queue) = 1
    /\ tts.cancelled # {}
    /\ HasEv(tts.out, "synthesis.cancel")
    /\ HasEv(tts.out, "synthesis.speak")

\* C25: startListening() of ReliableVoiceInput asks the recognizer to start
\* only when the recognizer has no session that is starting or running,
\* that is, when the previous session has ended or a stop() or abort() was
\* issued for it
C25_NoStartOverLiveSession ==
    [][RviStart /\ HasEv(rvi'.out, "recognition.start") =>
           rvi.rec \notin {"starting", "running"}]_vars

\* C26: VoiceActivityDetection begins no listening period while a restart
\* timer armed by handleVoiceEnd has more than the delay of onend left,
\* that is, during the cooldown of 2000 ms that follows a turn
C26_NoListeningDuringCooldown ==
    [][~vad.isListening /\ vad'.isListening =>
           \A i \in 1..Len(vad.restartTimers) :
              vad.restartTimers[i] <= VadEndRestartDelay]_vars

\* C27: while the assistant is not speaking, a sample starts a session of
\* InterruptibleVoiceInput only if the volume exceeds voiceThreshold
C27_SilentAssistantUsesVoiceThreshold ==
    [][ivi'.triggers > ivi.triggers => ivi.level > IviVoiceThreshold]_vars

\* C28: whenever InterruptibleVoiceInput is active, a run of its sampling
\* loop is scheduled: an animation-frame callback is pending
C28_ActiveKeepsSampling ==
    ivi.isActive => ivi.frames > 0

\* C29: every utterance InterruptibleVoiceInput emits is the trimmed
\* in-order concatenation of the final fragments its recognizer has
\* delivered in the session
C29_UtteranceIsSessionFinals ==
    \A i \in 1..Len(ivi.out) :
       ivi.out[i].ev = "onUserSpeechEnd" =>
           ivi.out[i].text = Trim(ivi.sessionFinals)

\* C30: the promise of captureQuestion is not rejected for the timeout or
\* for lack of speech when the recognizer has delivered a non-blank final
\* transcript for the capture, before or after the timer ran
C30_FinalTranscriptNotRejected ==
    /\ srs.promise = "rejected"
    /\ srs.value \in { <<"Speech recognition timeout">>,
                       <<"No speech detected">> }
    => srs.yielded = NoText

\* C31: every chunk speakLongText has handed to speak() has at most
\* chunkSize characters, unless it is one sentence part that is itself
\* longer than chunkSize
C31_ChunksObeyChunkSize ==
    \A i \in 1..Len(tts.spoken) :
       \/ Len(tts.spoken[i]) <= tts.long.chunkSize
       \/ \E p \in Range(SplitIntoSentences(tts.longText)) :
             Len(p) > tts.long.chunkSize /\ tts.spoken[i] = Trim(p)

\* C32: after stop() of InterruptibleVoiceInput returned, and until a
\* public method is called again, no handler emits onUserSpeechEnd
C32_NoUtteranceAfterStop ==
    ivi.afterStop => ~HasEv(ivi.out, "onUserSpeechEnd")

\* C33: however calls of start() of InterruptibleVoiceInput overlap, at
\* most one media stream it acquired is open
C33_OverlappingStartsKeepOneStream ==
    ivi.openStreams <= 1

\* C34: VoiceActivityDetection has at most one run of its sampling loop
\* scheduled at any time, whatever turns, end events of the recognizer and
\* restarts after the cooldown occur while start() is called once
C34_OneSamplingLoop ==
    vad.userStarts <= 1 => vad.frames <= 1

\* C35: in InterruptibleVoiceInput currentStatus is "idle" exactly when
\* the engine is not active, and it is "listening" whenever isListening
\* is true
C35_StatusAgreesWithFlags ==
    /\ (ivi.currentStatus = "idle") = ~ivi.isActive
    /\ ivi.isListening => ivi.currentStatus = "listening"

\* C36: a handler of ReliableVoiceInput emits onListeningEnd at most once,
\* and only when onListeningStart was emitted and not yet answered, that
\* is, when isListening was true
C36_ListeningEndAnswersStart ==
    [][CountEv(rvi'.out, "onListeningEnd")
           <= (IF rvi.isListening THEN 1 ELSE 0)]_vars

\* C37: ReliableVoiceInput is listening only while it is enabled
C37_ListeningImpliesEnabled ==
    rvi.isListening => rvi.isEnabled

\* C38: no handler of SimpleVoiceInput asks the recognizer to start while
\* the recognizer is starting or running
C38_NoStartWhileStartingOrRunning ==
    [][HasEv(svi'.out, "recognition.start") =>
           svi.rec \notin {"starting", "running"}]_vars

\* C39: in AITutorModal, whenever the synthesizer holds an utterance the
\* modal started for a reply, playing or pending, avatarState is "speaking"
C39_AvatarSpeaksWhilePlaying ==
    (\E i \in 1..Len(tts.queue) : tts.queue[i].by = "reply")
        => modal.avatarState = "speaking"

\* C40: while InterruptibleVoiceInput is active and no run of its
\* detection loop is scheduled, something that leads to a restart of the
\* loop is pending: a call of start() awaiting the microphone, a
\* recognizer session that has yet to end, the silence timer or a cooldown
\* timer
C40_ActiveEngineCanRearm ==
    ivi.isActive /\ ivi.frames = 0 =>
        \/ ivi.starting > 0
        \/ ivi.rec # "idle"
        \/ ivi.silenceTimer # NoTimer
        \/ ivi.cooldownTimers # << >>

=============================================================================
